---- MODULE Spec2Model ----
(***************************************************************************)
(* Virtual memory management of the RISC-V processor model                 *)
(* (riscv-ovpsim/source/riscvVM.c): software TLBs HS, VS1 and VS2, the     *)
(* Sv32/Sv39/Sv48 page table walkers, the domain aliases installed on a    *)
(* miss, and the SFENCE-style invalidation entry points.                   *)
(***************************************************************************)
EXTENDS Integers, Sequences, FiniteSets, TLC

VARIABLES csr, cfg, mem, tlb, dom, pasid, pmp, res, calls, fenced, stream

vars == <<csr, cfg, mem, tlb, dom, pasid, pmp, res, calls, fenced, stream>>

----------------------------------------------------------------------------
(* Uns64 arithmetic.  A 64-bit value is four 16-bit limbs, least           *)
(* significant first, so that every operation wraps modulo 2^64.           *)

LIMB == 2^16

U64(n) == <<n % LIMB, (n \div LIMB) % LIMB, 0, 0>>

Add64(x, y) ==
    LET s1 == x[1] + y[1]
        s2 == x[2] + y[2] + (s1 \div LIMB)
        s3 == x[3] + y[3] + (s2 \div LIMB)
        s4 == x[4] + y[4] + (s3 \div LIMB)
    IN  <<s1 % LIMB, s2 % LIMB, s3 % LIMB, s4 % LIMB>>

Not64(x) == <<LIMB - 1 - x[1], LIMB - 1 - x[2], LIMB - 1 - x[3], LIMB - 1 - x[4]>>

Neg64(x) == Add64(Not64(x), U64(1))

Sub64(x, y) == Add64(x, Neg64(y))

Lt64(x, y) ==
    \/ x[4] < y[4]
    \/ x[4] = y[4] /\ x[3] < y[3]
    \/ x[4] = y[4] /\ x[3] = y[3] /\ x[2] < y[2]
    \/ x[4] = y[4] /\ x[3] = y[3] /\ x[2] = y[2] /\ x[1] < y[1]

Le64(x, y) == ~Lt64(y, x)

Shr64(x, k) ==
    LET q == k \div 16
        r == k % 16
        L(i) == IF i + q <= 4 THEN x[i + q] ELSE 0
        F(i) == (L(i) \div 2^r) + (L(i + 1) % 2^r) * 2^(16 - r)
    IN  IF k >= 64 THEN U64(0) ELSE <<F(1), F(2), F(3), F(4)>>

Shl64(x, k) ==
    LET q == k \div 16
        r == k % 16
        L(i) == IF i - q >= 1 THEN x[i - q] ELSE 0
        F(i) == ((L(i) * 2^r) % LIMB) + (L(i - 1) \div 2^(16 - r))
    IN  IF k >= 64 THEN U64(0) ELSE <<F(1), F(2), F(3), F(4)>>

\* x & -(1<<k)
AlignDown64(x, k) == Shl64(Shr64(x, k), k)

\* x & ((1<<k)-1)
Low64(x, k) == Sub64(x, AlignDown64(x, k))

\* truncation to Uns32
Trunc32(x) == <<x[1], x[2], 0, 0>>

\* n bits (n <= 16) of x starting at bit lo, as a number
Bits(x, lo, n) == Shr64(x, lo)[1] % 2^n

Zero64 == U64(0)

\* bitwise and of two numbers of at most n bits
RECURSIVE BitAnd(_, _, _)
BitAnd(x, y, n) ==
    IF n = 0 THEN 0
    ELSE (x % 2) * (y % 2) + 2 * BitAnd(x \div 2, y \div 2, n - 1)

And64(x, y) ==
    <<BitAnd(x[1], y[1], 16), BitAnd(x[2], y[2], 16), BitAnd(x[3], y[3], 16),
      BitAnd(x[4], y[4], 16)>>

Or64(x, y) == Not64(And64(Not64(x), Not64(y)))

InRange64(a, lo, hi) == Le64(lo, a) /\ Le64(a, hi)

----------------------------------------------------------------------------
(* Privileges, modes, TLB identities                                       *)

MEM_PRIV_NONE == {}
MEM_PRIV_R == {"R"}
MEM_PRIV_W == {"W"}
MEM_PRIV_X == {"X"}
MEM_PRIV_RW == {"R", "W"}

RISCV_TLB_HS == "HS"
RISCV_TLB_VS1 == "VS1"
RISCV_TLB_VS2 == "VS2"
RISCV_TLB_LAST == "LAST"
TLBIds == {RISCV_TLB_HS, RISCV_TLB_VS1, RISCV_TLB_VS2}

getBaseMode(mode) == IF mode = "VU" THEN "U" ELSE IF mode = "VS" THEN "S" ELSE mode

modeIsVirtual(mode) == mode \in {"VU", "VS"}

inVMode == csr.V

getASIDMask == cfg.ASIDMask

updatePTEA == cfg.updatePTEA

updatePTED == cfg.updatePTED

getS1TLBId == IF inVMode THEN RISCV_TLB_VS1 ELSE RISCV_TLB_HS

getCurrentTLBId ==
    IF ~inVMode
    THEN (IF csr.satp.MODE # 0 THEN RISCV_TLB_HS ELSE RISCV_TLB_LAST)
    ELSE IF csr.vsatp.MODE # 0 THEN RISCV_TLB_VS1
    ELSE IF csr.hgatp.MODE # 0 THEN RISCV_TLB_VS2
    ELSE RISCV_TLB_LAST

activeTLBIsVirtual(activeTLB) == activeTLB # RISCV_TLB_HS

activeTLBIsVS2(activeTLB) == activeTLB = RISCV_TLB_VS2

\* the global bit without regard to the ASID width
getGOfPTE(activeTLB, G) == G \/ activeTLBIsVS2(activeTLB)

getG(activeTLB, G) == G \/ activeTLBIsVS2(activeTLB) \/ getASIDMask = 0

----------------------------------------------------------------------------
(* Simulated ASID (riscvSimASID) and TLB entry accessors                   *)

SimASIDFields ==
    {"ASID_HS", "ASID_VS", "VMID", "MXR_HS", "SUM_HS", "MXR_VS", "SUM_VS", "S1", "S2"}

ZeroSimASID == [f \in SimASIDFields |-> 0]

\* value & mask, for a mask given as the set of fields that are all ones
MaskSimASID(ASIDMask, simASID) ==
    [f \in SimASIDFields |-> IF f \in ASIDMask THEN simASID[f] ELSE 0]

\* assignment of a CSR field value to a one-bit Bool field; the model's
\* MODE values (0, 1, 9) have the same low bit as truth value
BoolBit(v) == IF v # 0 THEN 1 ELSE 0

entryHasVMID(entry) == entry.tlb = RISCV_TLB_VS1 \/ entry.tlb = RISCV_TLB_VS2

getEntryASID(entry) ==
    CASE entry.tlb = RISCV_TLB_HS  -> entry.simASID.ASID_HS
      [] entry.tlb = RISCV_TLB_VS1 -> entry.simASID.ASID_VS
      [] OTHER                     -> 0

getEntryVMID(entry) == IF entryHasVMID(entry) THEN entry.simASID.VMID ELSE 0

getEntrySize(entry) == Add64(Sub64(entry.highVA, entry.lowVA), U64(1))

\* the difference taken the wrong way round
getEntryPAtoVA(entry) == Sub64(entry.lowVA, entry.PA)

getEntryVAtoPA(entry) == Sub64(entry.PA, entry.lowVA)

getEntryASIDMask(entry, mode) ==
    LET V == modeIsVirtual(mode)
    IN  {"MXR_HS"}
        \cup (IF entry.G THEN {} ELSE IF V THEN {"ASID_VS"} ELSE {"ASID_HS"})
        \cup (IF entry.tlb = RISCV_TLB_VS2 THEN {}
              ELSE IF entry.U /\ getBaseMode(mode) = "S"
                   THEN (IF V THEN {"SUM_VS"} ELSE {"SUM_HS"})
                   ELSE {})
        \cup (IF V THEN {"VMID", "MXR_VS", "S1", "S2"} ELSE {})

getActiveASID(activeTLB) ==
    CASE activeTLB = RISCV_TLB_HS  -> csr.satp.ASID
      [] activeTLB = RISCV_TLB_VS1 -> csr.vsatp.ASID
      [] OTHER                     -> 0

getActiveVMID(activeTLB) ==
    IF activeTLB \in {RISCV_TLB_VS1, RISCV_TLB_VS2} THEN csr.hgatp.VMID ELSE 0

\* every entry taken to match
matchAnyVMID(VMID, entry) == TRUE

matchVMID(VMID, entry) == ~entryHasVMID(entry) \/ VMID = getEntryVMID(entry)

\* every entry taken to match the ASID
matchAnyASID(ASID, entry) == TRUE

matchASID(ASID, entry) == entry.G \/ ASID = getEntryASID(entry)

getSimASIDOf(c) ==
    [ASID_HS |-> c.satp.ASID,
     ASID_VS |-> c.vsatp.ASID,
     VMID    |-> c.hgatp.VMID,
     MXR_HS  |-> BoolBit(c.mstatus.MXR),
     SUM_HS  |-> BoolBit(c.mstatus.SUM),
     MXR_VS  |-> BoolBit(c.vsstatus.MXR),
     SUM_VS  |-> BoolBit(c.vsstatus.SUM),
     S1      |-> BoolBit(c.vsatp.MODE),
     S2      |-> BoolBit(c.hgatp.MODE)]

getSimASID == getSimASIDOf(csr)

getPTETableAddress(PPN) == Shl64(PPN, 12)

\* the root of stage 2 taken without the offset of the extra bits
getRootTableAddressNoOffset(activeTLB, s2Offset) ==
    CASE activeTLB = RISCV_TLB_HS  -> getPTETableAddress(csr.satp.PPN)
      [] activeTLB = RISCV_TLB_VS1 -> getPTETableAddress(csr.vsatp.PPN)
      [] activeTLB = RISCV_TLB_VS2 -> getPTETableAddress(csr.hgatp.PPN)

getRootTableAddress(activeTLB, s2Offset) ==
    CASE activeTLB = RISCV_TLB_HS  -> getPTETableAddress(csr.satp.PPN)
      [] activeTLB = RISCV_TLB_VS1 -> getPTETableAddress(csr.vsatp.PPN)
      [] activeTLB = RISCV_TLB_VS2 ->
            Add64(getPTETableAddress(csr.hgatp.PPN), Shl64(s2Offset, 12))

\* supervisor mode may execute a user page when SUM is set
checkEntryPermissionExecU(activeTLB, mode, entry, requiredPriv) ==
    LET MXR == IF activeTLB = RISCV_TLB_VS1
               THEN csr.mstatus.MXR = 1 \/ csr.vsstatus.MXR = 1
               ELSE csr.mstatus.MXR = 1
        SUM == IF activeTLB = RISCV_TLB_VS1
               THEN csr.vsstatus.SUM = 1
               ELSE csr.mstatus.SUM = 1
        md  == IF activeTLB = RISCV_TLB_VS2 THEN "U" ELSE mode
        p1  == IF "X" \in entry.priv /\ MXR THEN entry.priv \cup {"R"} ELSE entry.priv
        p2  == IF getBaseMode(md) = "U"
               THEN (IF ~entry.U THEN MEM_PRIV_NONE ELSE p1)
               ELSE IF entry.U
                    THEN (IF ~SUM THEN MEM_PRIV_NONE ELSE p1)
                    ELSE p1
    IN  IF requiredPriv \subseteq p2 THEN p2 ELSE MEM_PRIV_NONE

\* MXR taken from mstatus alone for every identity
checkEntryPermissionMXRHS(activeTLB, mode, entry, requiredPriv) ==
    LET MXR == csr.mstatus.MXR = 1
        SUM == IF activeTLB = RISCV_TLB_VS1
               THEN csr.vsstatus.SUM = 1
               ELSE csr.mstatus.SUM = 1
        md  == IF activeTLB = RISCV_TLB_VS2 THEN "U" ELSE mode
        p1  == IF "X" \in entry.priv /\ MXR THEN entry.priv \cup {"R"} ELSE entry.priv
        p2  == IF getBaseMode(md) = "U"
               THEN (IF ~entry.U THEN MEM_PRIV_NONE ELSE p1)
               ELSE IF entry.U
                    THEN (IF ~SUM THEN MEM_PRIV_NONE
                          ELSE IF cfg.privVersion >= 111 THEN p1 \ {"X"} ELSE p1)
                    ELSE p1
    IN  IF requiredPriv \subseteq p2 THEN p2 ELSE MEM_PRIV_NONE

checkEntryPermission(activeTLB, mode, entry, requiredPriv) ==
    LET MXR == IF activeTLB = RISCV_TLB_VS1
               THEN csr.mstatus.MXR = 1 \/ csr.vsstatus.MXR = 1
               ELSE csr.mstatus.MXR = 1
        SUM == IF activeTLB = RISCV_TLB_VS1
               THEN csr.vsstatus.SUM = 1
               ELSE csr.mstatus.SUM = 1
        md  == IF activeTLB = RISCV_TLB_VS2 THEN "U" ELSE mode
        p1  == IF "X" \in entry.priv /\ MXR THEN entry.priv \cup {"R"} ELSE entry.priv
        p2  == IF getBaseMode(md) = "U"
               THEN (IF ~entry.U THEN MEM_PRIV_NONE ELSE p1)
               ELSE IF entry.U
                    THEN (IF ~SUM THEN MEM_PRIV_NONE
                          ELSE IF cfg.privVersion >= 111 THEN p1 \ {"X"} ELSE p1)
                    ELSE p1
    IN  IF requiredPriv \subseteq p2 THEN p2 ELSE MEM_PRIV_NONE

\* an extension that must be zero whatever the sign of VPN
validVAZeroExtended(VPN, VPNextend) == VPNextend = 0

\* VPN is the sign-extended Int64 field, VPNextend the sign-extended Int32 field
validVA(VPN, VPNextend) ==
    IF VPN[4] < 2^15 THEN VPNextend = 0 ELSE VPNextend = -1

----------------------------------------------------------------------------
(* Page table memory as seen through the page table walk domain.  m is     *)
(* the machine state threaded through one call: m.mem maps the address of  *)
(* a page table entry to its fields; an address inside RAM that holds no   *)
(* entry reads as the all-zero entry; an access outside RAM, or a write to *)
(* a read-only address, sets PTWBadAddr.                                   *)

\* the PMP domain of a mode: mode U uses that of mode S; code and data
\* share one domain when cfg.unified
getPMPDomainCorD(mode, isCode) ==
    <<IF getBaseMode(mode) = "M" THEN "M" ELSE "S",
      IF cfg.unified THEN FALSE ELSE isCode>>

\* is the code domain required for the privilege?
isFetch(priv) == priv \cap MEM_PRIV_X # {}

getPMPDomainPriv(mode, priv) == getPMPDomainCorD(mode, isFetch(priv))

\* page table walk accesses made in the PMP domain of mode M
getPTWDomainM == getPMPDomainPriv("M", MEM_PRIV_RW)

\* the domain that readPageTableEntry and writePageTableEntry access
getPTWDomain == getPMPDomainPriv("S", MEM_PRIV_RW)

ZeroPTE ==
    [V |-> FALSE, priv |-> {}, U |-> FALSE, G |-> FALSE, A |-> FALSE, D |-> FALSE,
     PPN |-> Zero64]

RAMLow == Shl64(U64(8), 28)

RAMHigh == Add64(RAMLow, U64(2^20 - 1))

readPageTableEntry(m, PTEAddr) ==
    IF ~InRange64(PTEAddr, RAMLow, RAMHigh)
    THEN [PTWBadAddr |-> TRUE, PTE |-> ZeroPTE]
    ELSE [PTWBadAddr |-> FALSE,
          PTE |-> IF PTEAddr \in DOMAIN m.mem THEN m.mem[PTEAddr] ELSE ZeroPTE]

\* a write that leaves memory as it is
writePageTableEntryDropped(m, cx, PTEAddr, value) ==
    [PTWBadAddr |-> FALSE, mem |-> m.mem]

writePageTableEntry(m, cx, PTEAddr, value) ==
    IF cx.artifactAccess
    THEN [PTWBadAddr |-> FALSE, mem |-> m.mem]
    ELSE IF ~InRange64(PTEAddr, RAMLow, RAMHigh) \/ PTEAddr \in cfg.rom
         THEN [PTWBadAddr |-> TRUE, mem |-> m.mem]
         ELSE [PTWBadAddr |-> FALSE,
               mem |-> [a \in DOMAIN m.mem \cup {PTEAddr} |->
                           IF a = PTEAddr THEN value ELSE m.mem[a]]]

originalAccessFault(requiredPriv) ==
    CASE requiredPriv = MEM_PRIV_R -> "LoadAccessFault"
      [] requiredPriv = MEM_PRIV_W -> "StoreAMOAccessFault"
      [] requiredPriv = MEM_PRIV_X -> "InstructionAccessFault"

\* every walk error reported as the page fault of a load
handlePTWExceptionLoadPage(cx, error) ==
    IF cx.activeTLB = RISCV_TLB_VS2 THEN "LoadGuestPageFault" ELSE "LoadPageFault"

handlePTWException(cx, error) ==
    LET S2 == cx.activeTLB = RISCV_TLB_VS2
    IN  IF error \in {"PTEE_READ", "PTEE_WRITE"}
        THEN originalAccessFault(cx.requiredPriv)
        ELSE IF cx.requiredPriv = MEM_PRIV_R
             THEN (IF S2 THEN "LoadGuestPageFault" ELSE "LoadPageFault")
             ELSE IF cx.requiredPriv = MEM_PRIV_W
                  THEN (IF S2 THEN "StoreAMOGuestPageFault" ELSE "StoreAMOPageFault")
                  ELSE (IF S2 THEN "InstructionGuestPageFault"
                              ELSE "InstructionPageFault")

\* result of a walk that ends in PTE_ERROR(error)
PTE_ERROR(m, cx, error, PTEAddr) ==
    [exception |-> handlePTWException(cx, error), error |-> error,
     PTEAddr |-> PTEAddr, mem |-> m.mem, entry |-> {}, reads |-> <<>>]

\* VPN[level] of a virtual address for a format with vpnShift bits per level
getVPNi(VA, level, vpnShift) == Bits(VA, 12 + level * vpnShift, vpnShift)

\* what the table walk loop leaves behind: the error it raised if any, the
\* level i, the address of the last entry read and that entry, and the
\* addresses that readPageTableEntry was called for, in order
walkResult(error, i, PTEAddr, PTE, reads) ==
    [error |-> error, i |-> i, PTEAddr |-> PTEAddr, PTE |-> PTE, reads |-> reads]

RECURSIVE walkLoop(_, _, _, _, _, _)

\* the body of the table walk loop once the entry at PTEAddr is read as rd
walkLoopEntry(m, fmt, VA, i, PTEAddr, rd, reads) ==
    IF rd.PTWBadAddr
    THEN walkResult("PTEE_READ", i, PTEAddr, rd.PTE, reads)
    ELSE IF ~rd.PTE.V
    THEN walkResult("PTEE_V0", i, PTEAddr, rd.PTE, reads)
    ELSE IF rd.PTE.priv \cap MEM_PRIV_RW = MEM_PRIV_W
    THEN walkResult("PTEE_R0W1", i, PTEAddr, rd.PTE, reads)
    ELSE IF rd.PTE.priv # {}
    THEN walkResult("", i, PTEAddr, rd.PTE, reads)
    ELSE IF i - 1 < 0
    THEN walkResult("PTEE_LEAF", i - 1, PTEAddr, rd.PTE, reads)
    ELSE walkLoop(m, fmt, VA, i - 1, getPTETableAddress(rd.PTE.PPN), reads)

\* the table walk loop: levels i down to 0 from table address a, after the
\* reads made so far
walkLoop(m, fmt, VA, i, a, reads) ==
    LET PTEAddr == Add64(a, U64(getVPNi(VA, i, fmt.vpnShift) * fmt.pteBytes))
    IN  walkLoopEntry(m, fmt, VA, i, PTEAddr, readPageTableEntry(m, PTEAddr),
                      Append(reads, PTEAddr))

\* sign extension of the low n bits of x to 64 bits (a signed bit field)
SignExt64(x, n) ==
    IF Bits(x, n - 1, 1) = 1
    THEN Add64(Low64(x, n), Neg64(Shl64(U64(1), n)))
    ELSE Low64(x, n)

\* a signed bit field of n <= 25 bits starting at bit lo, as an integer
SignedBits(x, lo, n) ==
    LET v == Shr64(x, lo)
        u == (v[1] + v[2] * LIMB) % 2^n
    IN  IF u >= 2^(n - 1) THEN u - 2^n ELSE u

\* page table formats: top level index, VPN bits per level, entry bytes
FmtSv32 == [top |-> 1, vpnShift |-> 10, pteBytes |-> 4]

FmtSv39 == [top |-> 2, vpnShift |-> 9, pteBytes |-> 8]

FmtSv48 == [top |-> 3, vpnShift |-> 9, pteBytes |-> 8]

\* a successful lookup: the entry filled and the page table memory
PTE_OK(PTEAddr, memory, entry) ==
    [exception |-> "", error |-> "", PTEAddr |-> PTEAddr, mem |-> memory,
     entry |-> {entry}, reads |-> <<>>]

\* the TLB entry filled as a page of 4K whatever the level of the leaf
fillEntryPage4K(cx, PTE, VA, k) ==
    [lowVA    |-> AlignDown64(VA, 12),
     highVA   |-> Add64(AlignDown64(VA, 12), U64(4095)),
     PA       |-> Shl64(PTE.PPN, 12),
     simASID  |-> ZeroSimASID,
     tlb      |-> cx.activeTLB,
     mapped   |-> {},
     priv     |-> PTE.priv,
     U        |-> PTE.U,
     G        |-> getG(cx.activeTLB, PTE.G),
     A        |-> PTE.A,
     D        |-> PTE.D,
     artifact |-> FALSE]

\* the TLB entry filled from a leaf PTE that maps 2^k bytes
fillEntry(cx, PTE, VA, k) ==
    [lowVA    |-> AlignDown64(VA, k),
     highVA   |-> Sub64(Add64(AlignDown64(VA, k), Shl64(U64(1), k)), U64(1)),
     PA       |-> Shl64(PTE.PPN, 12),
     simASID  |-> ZeroSimASID,
     tlb      |-> cx.activeTLB,
     mapped   |-> {},
     priv     |-> PTE.priv,
     U        |-> PTE.U,
     G        |-> getG(cx.activeTLB, PTE.G),
     A        |-> PTE.A,
     D        |-> PTE.D,
     artifact |-> FALSE]

\* a failed write back that is noted but does not end the lookup
tlbLookupWriteGoesOn(m, cx, w, entry, doWrite, wr) ==
    IF doWrite /\ wr.PTWBadAddr
    THEN [PTE_OK(w.PTEAddr, m.mem, entry) EXCEPT !.error = "PTEE_WRITE"]
    ELSE PTE_OK(w.PTEAddr, IF doWrite THEN wr.mem ELSE m.mem, entry)

\* the write back of a PTE whose A or D bit was set, wr its outcome
tlbLookupWrite(m, cx, w, entry, doWrite, wr) ==
    IF doWrite /\ wr.PTWBadAddr
    THEN PTE_ERROR(m, cx, "PTEE_WRITE", w.PTEAddr)
    ELSE PTE_OK(w.PTEAddr, IF doWrite THEN wr.mem ELSE m.mem, entry)

\* A and D written back before the permission check
tlbLookupUpdateWritesFirst(m, cx, w, entry) ==
    LET setD == ~(entry.D \/ ~("W" \in cx.requiredPriv))
        wr   == writePageTableEntry(m, cx, w.PTEAddr,
                    [w.PTE EXCEPT !.A = TRUE, !.D = w.PTE.D \/ setD])
    IN  IF checkEntryPermission(cx.activeTLB, cx.mode, entry, cx.requiredPriv)
               = MEM_PRIV_NONE
        THEN PTE_ERROR([m EXCEPT !.mem = wr.mem], cx, "PTEE_PRIV", w.PTEAddr)
        ELSE PTE_OK(w.PTEAddr, wr.mem, [entry EXCEPT !.A = TRUE, !.D = entry.D \/ setD])

\* permission check and A/D update of the entry filled from the leaf PTE
tlbLookupUpdate(m, cx, w, entry) ==
    LET setA == ~entry.A
        setD == ~(entry.D \/ ~("W" \in cx.requiredPriv))
    IN  IF checkEntryPermission(cx.activeTLB, cx.mode, entry, cx.requiredPriv)
               = MEM_PRIV_NONE
        THEN PTE_ERROR(m, cx, "PTEE_PRIV", w.PTEAddr)
        ELSE IF setA /\ ~updatePTEA
        THEN PTE_ERROR(m, cx, "PTEE_A0", w.PTEAddr)
        ELSE IF setD /\ ~updatePTED
        THEN PTE_ERROR(m, cx, "PTEE_D0", w.PTEAddr)
        ELSE tlbLookupWrite(m, cx, w,
                 [entry EXCEPT !.A = TRUE, !.D = entry.D \/ setD],
                 setA \/ setD,
                 writePageTableEntry(m, cx, w.PTEAddr,
                     [w.PTE EXCEPT !.A = TRUE, !.D = w.PTE.D \/ setD]))

\* the outcome r of a lookup with the reads of its table walk
withReads(r, reads) == [r EXCEPT !.reads = reads]

\* leaf and alignment checks on the outcome w of the table walk loop
tlbLookupLeaf(m, cx, fmt, VA, w) ==
    LET k == w.i * fmt.vpnShift + 12
    IN  IF w.error # ""
        THEN withReads(PTE_ERROR(m, cx, w.error, w.PTEAddr), w.reads)
        ELSE IF Low64(Shl64(w.PTE.PPN, 12), k) # Zero64
        THEN withReads(PTE_ERROR(m, cx, "PTEE_ALIGN", w.PTEAddr), w.reads)
        ELSE withReads(tlbLookupUpdate(m, cx, w, fillEntry(cx, w.PTE, VA, k)),
                       w.reads)

\* The part of tlbLookupSv32/Sv39/Sv48 that the three share: the table walk
\* from the root, then the alignment check, the entry fill, the permission
\* check, the A and D update and the write back.  VA has its page offset clear.
tlbLookupWalk(m, cx, fmt, VA) ==
    tlbLookupLeaf(m, cx, fmt, VA,
                  walkLoop(m, fmt, VA, fmt.top,
                           getRootTableAddress(cx.activeTLB, cx.s2Offset), <<>>))

tlbLookupSv32(m, cx, lowVA) ==
    tlbLookupWalk(m, cx, FmtSv32, AlignDown64(Trunc32(lowVA), 12))

tlbLookupSv39(m, cx, lowVA) ==
    IF ~validVA(SignExt64(Shr64(lowVA, 12), 27), SignedBits(lowVA, 39, 25))
    THEN PTE_ERROR(m, cx, "PTEE_VAEXTEND", Zero64)
    ELSE tlbLookupWalk(m, cx, FmtSv39, AlignDown64(lowVA, 12))

tlbLookupSv48(m, cx, lowVA) ==
    IF ~validVA(SignExt64(Shr64(lowVA, 12), 36), SignedBits(lowVA, 48, 16))
    THEN PTE_ERROR(m, cx, "PTEE_VAEXTEND", Zero64)
    ELSE tlbLookupWalk(m, cx, FmtSv48, AlignDown64(lowVA, 12))

\* lowVA and highVA of a successful lookup moved up by the ignored bits
addExtraBits(r, extraBits) ==
    IF r.exception # ""
    THEN r
    ELSE [r EXCEPT !.entry = {[e EXCEPT !.lowVA  = Add64(e.lowVA, extraBits),
                                        !.highVA = Add64(e.highVA, extraBits)]
                              : e \in r.entry}]

tlbLookupSv32x4(m, cx, lowVA) ==
    LET extraBits == Shr64(lowVA, 32)
    IN  addExtraBits(tlbLookupSv32(m, [cx EXCEPT !.s2Offset = extraBits], lowVA),
                     Shl64(extraBits, 32))

tlbLookupSv39x4(m, cx, lowVA) ==
    LET extraBits == Shr64(lowVA, 39)
    IN  IF Lt64(U64(3), extraBits)
        THEN PTE_ERROR(m, cx, "PTEE_VAEXTEND", Zero64)
        ELSE addExtraBits(
                 tlbLookupSv39(m, [cx EXCEPT !.s2Offset = extraBits],
                               Sub64(lowVA, Shl64(extraBits, 39))),
                 Shl64(extraBits, 39))

tlbLookupSv48x4(m, cx, lowVA) ==
    LET extraBits == Shr64(lowVA, 48)
    IN  IF Lt64(U64(3), extraBits)
        THEN PTE_ERROR(m, cx, "PTEE_VAEXTEND", Zero64)
        ELSE addExtraBits(
                 tlbLookupSv48(m, [cx EXCEPT !.s2Offset = extraBits],
                               Sub64(lowVA, Shl64(extraBits, 48))),
                 Shl64(extraBits, 48))

tlbLookupS1(m, cx, lowVA) ==
    LET V      == activeTLBIsVirtual(cx.activeTLB)
        vaMode == IF V THEN csr.vsatp.MODE ELSE csr.satp.MODE
    IN  CASE vaMode = 1 -> tlbLookupSv32(m, cx, lowVA)
          [] vaMode = 8 -> tlbLookupSv39(m, cx, lowVA)
          [] vaMode = 9 -> tlbLookupSv48(m, cx, lowVA)

tlbLookupS2(m, cx, lowVA) ==
    LET vaMode == csr.hgatp.MODE
    IN  CASE vaMode = 1 -> tlbLookupSv32x4(m, cx, lowVA)
          [] vaMode = 8 -> tlbLookupSv39x4(m, cx, lowVA)
          [] vaMode = 9 -> tlbLookupSv48x4(m, cx, lowVA)

tlbLookup(m, cx, lowVA) ==
    IF ~activeTLBIsVS2(cx.activeTLB)
    THEN tlbLookupS1(m, cx, lowVA)
    ELSE tlbLookupS2(m, cx, lowVA)

----------------------------------------------------------------------------
(* Domain aliases.  m.dom is the set of aliases that vmirtAliasMemoryVM    *)
(* has installed and vmirtUnaliasMemoryVM has not removed.  A virtual      *)
(* domain is named by its mode and whether it is the code domain.          *)

\* the alias that one vmirtAliasMemoryVM call describes
vmAlias(domainV, lowPA, highPA, lowVA, priv, ASIDMask, ASID) ==
    [domain |-> domainV, lowVA |-> lowVA,
     highVA |-> Add64(lowVA, Sub64(highPA, lowPA)), lowPA |-> lowPA,
     priv |-> priv, ASIDMask |-> ASIDMask, ASID |-> ASID]

\* a new alias replaces what the same domain maps under the same masked
\* ASID anywhere in its range
vmirtAliasMemoryVM(d, domainV, lowPA, highPA, lowVA, priv, ASIDMask, ASID) ==
    LET new == vmAlias(domainV, lowPA, highPA, lowVA, priv, ASIDMask, ASID)
    IN  {a \in d : ~(/\ a.domain = domainV
                     /\ Le64(a.lowVA, new.highVA) /\ Le64(new.lowVA, a.highVA)
                     /\ a.ASIDMask = ASIDMask
                     /\ MaskSimASID(ASIDMask, a.ASID) = MaskSimASID(ASIDMask, ASID))}
        \cup {new}

vmirtUnaliasMemoryVM(d, domain, lowVA, highVA, ASIDMask, ASID) ==
    {a \in d : ~(/\ a.domain = domain
                 /\ InRange64(a.lowVA, lowVA, highVA)
                 /\ InRange64(a.highVA, lowVA, highVA)
                 /\ a.ASIDMask = ASIDMask
                 /\ MaskSimASID(ASIDMask, a.ASID) = MaskSimASID(ASIDMask, ASID))}

getModeMask(mode) == {getBaseMode(mode)}

\* the mapped bit cleared with the aliases left in the domains
deleteTLBEntryMappingsModeBitOnly(x, mode) ==
    [dom |-> x.dom, entry |-> [x.entry EXCEPT !.mapped = @ \ getModeMask(mode)]]

\* x is the pair [dom, entry] of the aliases and the entry worked on
\* (the entry's mapped mask changes with them)
deleteTLBEntryMappingsMode(x, mode) ==
    IF x.entry.mapped \cap getModeMask(mode) # {}
    THEN [dom |-> vmirtUnaliasMemoryVM(
                      vmirtUnaliasMemoryVM(x.dom, <<mode, FALSE>>, x.entry.lowVA,
                          x.entry.highVA, getEntryASIDMask(x.entry, mode),
                          x.entry.simASID),
                      <<mode, TRUE>>, x.entry.lowVA, x.entry.highVA,
                      getEntryASIDMask(x.entry, mode), x.entry.simASID),
          entry |-> [x.entry EXCEPT !.mapped = @ \ getModeMask(mode)]]
    ELSE x

deleteTLBEntryMappingsModeASID(x, mode, newASID) ==
    IF MaskSimASID(getEntryASIDMask(x.entry, mode), x.entry.simASID)
           # MaskSimASID(getEntryASIDMask(x.entry, mode), newASID)
    THEN deleteTLBEntryMappingsMode(x, mode)
    ELSE x

unmapTLBEntry(d, entry) ==
    IF entry.tlb = RISCV_TLB_HS
    THEN deleteTLBEntryMappingsMode(
             deleteTLBEntryMappingsMode([dom |-> d, entry |-> entry], "U"), "S")
    ELSE deleteTLBEntryMappingsMode(
             deleteTLBEntryMappingsMode([dom |-> d, entry |-> entry], "VU"), "VS")

\* the entry left mapped as it is, whatever its simulated ASID becomes
unmapTLBEntryNewASIDKeeps(d, entry, newASID) == [dom |-> d, entry |-> entry]

unmapTLBEntryNewASID(d, entry, newASID) ==
    IF entry.tlb = RISCV_TLB_HS
    THEN deleteTLBEntryMappingsModeASID(
             deleteTLBEntryMappingsModeASID([dom |-> d, entry |-> entry], "U",
                                            newASID), "S", newASID)
    ELSE deleteTLBEntryMappingsModeASID(
             deleteTLBEntryMappingsModeASID([dom |-> d, entry |-> entry], "VU",
                                            newASID), "VS", newASID)

deleteTLBEntry(m, id, entry) ==
    [m EXCEPT !.dom = IF entry.mapped # {} THEN unmapTLBEntry(m.dom, entry).dom
                      ELSE m.dom,
              !.tlb[id] = @ \ {entry}]

\* deleteTLBEntry applied to each entry of a set met by one scan
RECURSIVE deleteTLBEntries(_, _, _)
deleteTLBEntries(m, id, S) ==
    IF S = {}
    THEN m
    ELSE LET e == CHOOSE x \in S : TRUE
         IN  deleteTLBEntries(deleteTLBEntry(m, id, e), id, S \ {e})

\* deletion by ASID that does not look at the global bit
deleteTLBEntryModeAnyG(m, id, entry, mode, ASID) ==
    LET delete ==
            IF mode = "MM_ANY" THEN TRUE
            ELSE IF ~matchVMID(csr.hgatp.VMID, entry) THEN FALSE
            ELSE IF getASIDMask = 0 THEN TRUE
            ELSE matchASID(ASID, entry)
    IN  IF delete THEN deleteTLBEntry(m, id, entry) ELSE m

deleteTLBEntryMode(m, id, entry, mode, ASID) ==
    LET delete ==
            IF mode = "MM_ANY" THEN TRUE
            ELSE IF ~matchVMID(csr.hgatp.VMID, entry) THEN FALSE
            ELSE IF getASIDMask = 0 THEN TRUE
            ELSE ~entry.G /\ matchASID(ASID, entry)
    IN  IF delete THEN deleteTLBEntry(m, id, entry) ELSE m

\* entries of a TLB that overlap a range
rangeEntries(m, id, lowVA, highVA) ==
    {e \in m.tlb[id] : Le64(e.lowVA, highVA) /\ Le64(lowVA, e.highVA)}

RECURSIVE deleteTLBEntriesMode(_, _, _, _, _)
deleteTLBEntriesMode(m, id, S, mode, ASID) ==
    IF S = {}
    THEN m
    ELSE LET e == CHOOSE x \in S : TRUE
         IN  deleteTLBEntriesMode(deleteTLBEntryMode(m, id, e, mode, ASID),
                                  id, S \ {e}, mode, ASID)

\* A scan of the whole range: getTLBEntryForRange deletes every artifact
\* entry it meets, every other entry goes to deleteTLBEntryMode.
invalidateTLBEntriesRange(m, id, lowVA, highVA, mode, ASID) ==
    LET met  == rangeEntries(m, id, lowVA, highVA)
        arts == {e \in met : e.artifact}
    IN  deleteTLBEntriesMode(deleteTLBEntries(m, id, arts), id, met \ arts,
                             mode, ASID)

----------------------------------------------------------------------------
(* TLB lookup and refill.  An optional entry ("tlbEntryP or 0") is the     *)
(* empty set or a singleton.  cx holds what one translation stage is       *)
(* called with: activeTLB, mode, requiredPriv, attrs (attrsArtifact),      *)
(* riscv->artifactAccess, s2Active, s1VA, s2Offset, and scanArtifactFirst, *)
(* the one fact about the range table's iteration order that matters: if   *)
(* an artifact entry precedes the matching entry, the scan deletes it.     *)

\* a scan that returns whatever entry matches, artifact or not
findTLBEntryAnyEntry(m, cx, VA) ==
    LET match == {e \in rangeEntries(m, cx.activeTLB, VA, VA) :
                     /\ matchVMID(getActiveVMID(cx.activeTLB), e)
                     /\ matchASID(getActiveASID(cx.activeTLB), e)}
    IN  [m |-> m, entry |-> IF match = {} THEN {} ELSE {CHOOSE e \in match : TRUE}]

findTLBEntry(m, cx, VA) ==
    LET id    == cx.activeTLB
        met   == rangeEntries(m, id, VA, VA)
        arts  == {e \in met : e.artifact}
        match == {e \in met : /\ ~e.artifact
                              /\ matchVMID(getActiveVMID(id), e)
                              /\ matchASID(getActiveASID(id), e)}
    IN  [m |-> IF match = {} \/ cx.scanArtifactFirst
               THEN deleteTLBEntries(m, id, arts)
               ELSE m,
         entry |-> IF match = {} THEN {} ELSE {CHOOSE e \in match : TRUE}]

\* no exception delivered
handleInvalidAccessSilent(m, cx, VA, exception) == m

handleInvalidAccess(m, cx, VA, exception) ==
    LET va == IF cx.s2Active THEN cx.s1VA ELSE VA
    IN  IF ~cx.attrsArtifact
        THEN [m EXCEPT !.exc = Append(@, [exception |-> exception, VA |-> va,
                                          GVA |-> activeTLBIsVirtual(cx.activeTLB)])]
        ELSE m

\* result: the machine, the entry kept, and miP->priv
\* an entry that is not dirty mapped with every privilege it allows
validateTLBEntryPrivKeepsW(m, cx, entry, miPriv) ==
    IF entry = {}
    THEN [m |-> m, entry |-> {}, priv |-> miPriv]
    ELSE IF checkEntryPermission(cx.activeTLB, cx.mode, CHOOSE x \in entry : TRUE,
                                 cx.requiredPriv) = MEM_PRIV_NONE
    THEN [m |-> m, entry |-> {}, priv |-> miPriv]
    ELSE [m |-> m, entry |-> entry,
          priv |-> checkEntryPermission(cx.activeTLB, cx.mode,
                                        CHOOSE x \in entry : TRUE, cx.requiredPriv)]

\* an entry kept whatever privilege it grants
validateTLBEntryPrivAnyPriv(m, cx, entry, miPriv) ==
    [m |-> m, entry |-> entry, priv |-> cx.requiredPriv]

validateTLBEntryPriv(m, cx, entry, miPriv) ==
    IF entry = {}
    THEN [m |-> m, entry |-> {}, priv |-> miPriv]
    ELSE LET e    == CHOOSE x \in entry : TRUE
             priv == checkEntryPermission(cx.activeTLB, cx.mode, e, cx.requiredPriv)
         IN  IF priv = MEM_PRIV_NONE
             THEN [m |-> m, entry |-> {}, priv |-> miPriv]
             ELSE IF "W" \in cx.requiredPriv /\ ~e.D
             THEN [m |-> deleteTLBEntry(m, cx.activeTLB, e), entry |-> {},
                   priv |-> miPriv]
             ELSE [m |-> m, entry |-> entry,
                   priv |-> IF ~e.D THEN priv \ {"W"} ELSE priv]

allocateTLBEntry(m, cx, base) ==
    LET entry == [base EXCEPT !.artifact = cx.artifactAccess]
    IN  [m |-> [m EXCEPT !.tlb[cx.activeTLB] = @ \cup {entry}], entry |-> {entry}]

\* the entry found serves the access: no table walk
tlbHit(cx, VA, v1) ==
    [v1 EXCEPT !.m.hits = Append(@, [tlb |-> cx.activeTLB, VA |-> VA,
                                     forVA |-> IF cx.s2Active THEN cx.s1VA ELSE VA,
                                     entry |-> CHOOSE x \in v1.entry : TRUE])]

\* the table walk made with outcome r, v1 the state before it and v2 after
tlbWalked(cx, VA, v1, r, v2) ==
    [v2 EXCEPT !.m.walks =
         Append(@, [tlb |-> cx.activeTLB, VA |-> VA,
                    forVA |-> IF cx.s2Active THEN cx.s1VA ELSE VA,
                    error |-> r.error,
                    exception |-> r.exception, PTEAddr |-> r.PTEAddr,
                    reads |-> r.reads,
                    domain |-> getPTWDomain,
                    added |-> v2.m.tlb[cx.activeTLB] \ v1.m.tlb[cx.activeTLB],
                    wrote |-> r.mem # v1.m.mem])]

\* an entry allocated for the page whether or not the walk faulted
tlbLookupDoneAllocates(m, cx, VA, r) ==
    IF r.exception # ""
    THEN [m |-> allocateTLBEntry(handleInvalidAccess(m, cx, VA, r.exception), cx,
                                 fillEntry(cx, ZeroPTE, VA, 12)).m,
          entry |-> {}]
    ELSE allocateTLBEntry([m EXCEPT !.mem = r.mem], cx, CHOOSE x \in r.entry : TRUE)

\* what follows the table walk: the exception taken or the entry allocated
tlbLookupDone(m, cx, VA, r) ==
    IF r.exception # ""
    THEN [m |-> handleInvalidAccess(m, cx, VA, r.exception), entry |-> {}]
    ELSE allocateTLBEntry([m EXCEPT !.mem = r.mem], cx, CHOOSE x \in r.entry : TRUE)

\* the second validation, of the entry al that the walk created
findOrCreateValidate(cx, VA, v1, r, al) ==
    tlbWalked(cx, VA, v1, r, validateTLBEntryPriv(al.m, cx, al.entry, v1.priv))

\* the table walk made when no usable entry exists, r its outcome
findOrCreateWalk(cx, VA, v1, r) ==
    findOrCreateValidate(cx, VA, v1, r, tlbLookupDone(v1.m, cx, VA, r))

\* v1 is the first validation, of the entry found
findOrCreateLookup(cx, VA, v1) ==
    IF v1.entry # {}
    THEN tlbHit(cx, VA, v1)
    ELSE findOrCreateWalk(cx, VA, v1, tlbLookup(v1.m, cx, VA))

\* f is the outcome of findTLBEntry
findOrCreateFound(cx, VA, f) ==
    findOrCreateLookup(cx, VA,
                       validateTLBEntryPriv(f.m, cx, f.entry, cx.requiredPriv))

findOrCreateTLBEntry(m, cx, VA) ==
    findOrCreateFound(cx, VA, findTLBEntry(m, cx, VA))

\* the entry e of stage outcome r takes the current simulated ASID, u the
\* outcome of unmapTLBEntryNewASID
setEntrySimASID(cx, r, e, u) ==
    [m |-> [r.m EXCEPT !.dom = u.dom,
                       !.tlb[cx.activeTLB] =
                           (@ \ {e}) \cup {[u.entry EXCEPT !.simASID = getSimASID]}],
     entry |-> {[u.entry EXCEPT !.simASID = getSimASID]}, priv |-> r.priv]

\* r is the outcome of findOrCreateTLBEntry
getTLBStageEntryFound(cx, r) ==
    IF r.entry = {}
    THEN r
    ELSE setEntrySimASID(cx, r, CHOOSE x \in r.entry : TRUE,
             unmapTLBEntryNewASID(r.m.dom, CHOOSE x \in r.entry : TRUE, getSimASID))

getTLBStageEntry(m, cx, VA) ==
    getTLBStageEntryFound(cx, findOrCreateTLBEntry(m, cx, VA))

----------------------------------------------------------------------------
(* Physical memory protection.  p is the PMP state: p.cfg the bytes of the *)
(* pmpcfg registers, p.addr the pmpaddr registers, p.prot the calls of     *)
(* vmirtProtectMemory made on the PMP domains since construction, each     *)
(* with the domain (of mode M or mode S, which mode U shares), the range   *)
(* and the privilege set there.                                            *)

PMPM_OFF == 0
PMPM_TOR == 1
PMPM_NA4 == 2
PMPM_NAPOT == 3

MEM_PRIV_RWX == {"R", "W", "X"}

getNumPMPs == cfg.PMP_registers

\* the fields of pmpcfgElem: priv bits 2:0, mode bits 4:3, L bit 7
pmpcfgElem(u8) ==
    [priv |-> u8 % 8, mode |-> (u8 \div 8) % 4, L |-> (u8 \div 128) % 2]

\* the memPriv that the three bits of pmpcfgElem.priv denote
privOfBits(bits) ==
    (IF bits % 2 = 1 THEN MEM_PRIV_R ELSE {})
    \cup (IF (bits \div 2) % 2 = 1 THEN MEM_PRIV_W ELSE {})
    \cup (IF (bits \div 4) % 2 = 1 THEN MEM_PRIV_X ELSE {})

getPMPCFGElem(p, index) == pmpcfgElem(p.cfg[index])

\* no entry is ever locked
pmpLockedNever(p, artifactAccess, index) == FALSE

\* an entry is locked unless the access is an artifact access
pmpLocked(p, artifactAccess, index) ==
    ~artifactAccess /\ getPMPCFGElem(p, index).L = 1

\* every address bit at any width of the external address bus
getAddressMask(bits) ==
    IF bits = 64 THEN Not64(Zero64) ELSE Sub64(Shl64(U64(1), bits), U64(1))

\* the writable bits of each byte of pmpcfg: priv, mode and L
WM64_pmpcfg == <<128 + 31, 128 + 31, 128 + 31, 128 + 31,
                 128 + 31, 128 + 31, 128 + 31, 128 + 31>>

getEffectivePMPAddr(p, index) ==
    IF cfg.PMP_grain >= 2 /\ getPMPCFGElem(p, index).mode = PMPM_NAPOT
    THEN Or64(p.addr[index], Sub64(Shl64(U64(1), cfg.PMP_grain - 1), U64(1)))
    ELSE IF cfg.PMP_grain >= 1 /\ getPMPCFGElem(p, index).mode # PMPM_NAPOT
    THEN And64(p.addr[index], Shl64(Not64(Zero64), cfg.PMP_grain))
    ELSE p.addr[index]

\* a TOR region is active only if its effective address is non-zero
getPMPRegionActive(p, e, index) ==
    IF e.mode = PMPM_OFF THEN FALSE
    ELSE IF e.mode # PMPM_TOR THEN TRUE
    ELSE getEffectivePMPAddr(p, index) # Zero64

\* no entry is ever a locked TOR entry
pmpLockedTORNever(p, artifactAccess, index) == FALSE

pmpLockedTOR(p, artifactAccess, index) ==
    /\ index < getNumPMPs
    /\ getPMPCFGElem(p, index).mode = PMPM_TOR
    /\ pmpLocked(p, artifactAccess, index)

\* one call of vmirtProtectMemory with MEM_PRIV_SET
vmirtProtectMemory(p, domain, lo, hi, priv) ==
    [p EXCEPT !.prot = Append(@, [domain |-> domain, lo |-> lo, hi |-> hi,
                                  priv |-> priv])]

\* the adjacent bytes lose their privileges so that an access that
\* straddles the boundary of the region misses again
pmpProtectHigh(p, domain, hi) ==
    IF /\ Lt64(hi, getAddressMask(cfg.extBits))
       /\ (cfg.unaligned \/ Bits(Add64(hi, U64(1)), 2, 1) = 1)
    THEN vmirtProtectMemory(p, domain, Add64(hi, U64(1)), Add64(hi, U64(1)),
                            MEM_PRIV_NONE)
    ELSE p

pmpProtectLow(p, domain, lo) ==
    IF Lt64(Zero64, lo) /\ (cfg.unaligned \/ Bits(lo, 2, 1) = 1)
    THEN vmirtProtectMemory(p, domain, Sub64(lo, U64(1)), Sub64(lo, U64(1)),
                            MEM_PRIV_NONE)
    ELSE p

pmpProtectAdjacent(p, domain, lo, hi, priv, updatePriv) ==
    IF /\ (priv # MEM_PRIV_NONE \/ ~updatePriv)
       /\ (cfg.unaligned \/ cfg.flen > 32 \/ cfg.xlen > 32)
    THEN pmpProtectHigh(pmpProtectLow(p, domain, lo), domain, hi)
    ELSE p

pmpProtect(p, domain, lo, hi, priv, updatePriv) ==
    pmpProtectAdjacent(IF updatePriv
                       THEN vmirtProtectMemory(p, domain, lo, hi, priv)
                       ELSE p,
                       domain, lo, hi, priv, updatePriv)

\* the code domain, when it is not the data domain
setPMPPrivCode(p, mode, low, high, priv, updatePriv) ==
    IF ~updatePriv \/ priv = MEM_PRIV_NONE \/ priv \cap MEM_PRIV_X # {}
    THEN pmpProtect(p, getPMPDomainCorD(mode, TRUE), low, high,
                    priv \cap MEM_PRIV_X, updatePriv)
    ELSE p

setPMPPriv(p, mode, low, high, priv, updatePriv) ==
    IF cfg.unified
    THEN pmpProtect(p, getPMPDomainCorD(mode, FALSE), low, high, priv,
                    updatePriv)
    ELSE setPMPPrivCode(
             IF ~updatePriv \/ priv = MEM_PRIV_NONE \/ priv \cap MEM_PRIV_RW # {}
             THEN pmpProtect(p, getPMPDomainCorD(mode, FALSE), low, high,
                             priv \cap MEM_PRIV_RW, updatePriv)
             ELSE p,
             mode, low, high, priv, updatePriv)

\* bounds from a mask that is not shifted left by one
getPMPEntryBoundsNAPOTHalf(low, notLow) ==
    [low  |-> And64(low, Not64(Sub64(And64(notLow, Neg64(notLow)), U64(1)))),
     high |-> Or64(low, Sub64(And64(notLow, Neg64(notLow)), U64(1)))]

\* the bounds of a NAPOT region from pmpaddr<<2
getPMPEntryBoundsNAPOT(low, notLow) ==
    [low  |-> And64(low, Not64(Sub64(Shl64(And64(notLow, Neg64(notLow)), 1), U64(1)))),
     high |-> Or64(And64(low, Not64(Sub64(Shl64(And64(notLow, Neg64(notLow)), 1), U64(1)))),
                   Sub64(Shl64(And64(notLow, Neg64(notLow)), 1), U64(1)))]

getPMPEntryBounds(p, index) ==
    IF getPMPCFGElem(p, index).mode = PMPM_NA4
    THEN [low  |-> Shl64(getEffectivePMPAddr(p, index), 2),
          high |-> Add64(Shl64(getEffectivePMPAddr(p, index), 2), U64(3))]
    ELSE IF getPMPCFGElem(p, index).mode = PMPM_NAPOT
    THEN getPMPEntryBoundsNAPOT(
             Shl64(getEffectivePMPAddr(p, index), 2),
             Not64(Add64(Shl64(getEffectivePMPAddr(p, index), 2), U64(3))))
    ELSE [low  |-> And64(IF index # 0 THEN Shl64(p.addr[index - 1], 2) ELSE Zero64,
                         Shl64(Neg64(U64(4)), cfg.PMP_grain)),
          high |-> Sub64(Shl64(getEffectivePMPAddr(p, index), 2), U64(1))]

lowerPriorityPMPEntryLocked(p, index) ==
    \E i \in (index + 1)..(getNumPMPs - 1) :
        getPMPCFGElem(p, i).L = 1 /\ getPMPCFGElem(p, i).mode # PMPM_OFF

\* the privileges of the region are removed from the PMP domains
invalidatePMPEntryRange(p, index, b) ==
    IF Le64(b.low, b.high)
    THEN setPMPPriv(setPMPPriv(p, "S", b.low, b.high, MEM_PRIV_NONE, TRUE),
                    "M", b.low, b.high, MEM_PRIV_NONE,
                    getPMPCFGElem(p, index).L = 1
                        \/ lowerPriorityPMPEntryLocked(p, index))
    ELSE p

invalidatePMPEntry(p, index) ==
    IF getPMPRegionActive(p, getPMPCFGElem(p, index), index)
    THEN invalidatePMPEntryRange(p, index, getPMPEntryBounds(p, index))
    ELSE p

\* the index of the pmpcfg register as a 64-bit register
getPMPCFGOffset(index) == IF cfg.xlen = 64 THEN index \div 2 ELSE index

entriesPerCFG == IF cfg.xlen = 64 THEN 8 ELSE 4

validPMPCFG(index) ==
    getPMPCFGOffset(index) < (getNumPMPs + entriesPerCFG - 1) \div entriesPerCFG

\* byte i of a 64-bit value
byteOf(v, i) == Bits(v, 8 * i, 8)

\* the 64-bit or the 32-bit view of the bytes of pmpcfg
readPMPCFGInt(p, index) ==
    IF cfg.xlen = 64
    THEN <<p.cfg[8 * (index \div 2)] + 256 * p.cfg[8 * (index \div 2) + 1],
           p.cfg[8 * (index \div 2) + 2] + 256 * p.cfg[8 * (index \div 2) + 3],
           p.cfg[8 * (index \div 2) + 4] + 256 * p.cfg[8 * (index \div 2) + 5],
           p.cfg[8 * (index \div 2) + 6] + 256 * p.cfg[8 * (index \div 2) + 7]>>
    ELSE <<p.cfg[4 * index] + 256 * p.cfg[4 * index + 1],
           p.cfg[4 * index + 2] + 256 * p.cfg[4 * index + 3], 0, 0>>

riscvVMReadPMPCFG(p, index) ==
    IF validPMPCFG(index) THEN readPMPCFGInt(p, index) ELSE Zero64

\* the byte written taken as it is, masked to the entries and the bits that
\* are writable
srcCFGAnyMode(p, cfgIndex, newValue, i, numBytes) ==
    IF i < numBytes
    THEN BitAnd(byteOf(newValue, i), WM64_pmpcfg[i + 1], 8)
    ELSE 0

\* the byte written to entry cfgIndex: masked to the entries and the bits
\* that are writable; NA4 is kept out when the grain is not zero
srcCFG(p, cfgIndex, newValue, i, numBytes) ==
    IF /\ cfg.PMP_grain # 0
       /\ pmpcfgElem(IF i < numBytes
                     THEN BitAnd(byteOf(newValue, i), WM64_pmpcfg[i + 1], 8)
                     ELSE 0).mode = PMPM_NA4
    THEN BitAnd(byteOf(newValue, i), WM64_pmpcfg[i + 1], 8)
            - 8 * PMPM_NA4 + 8 * getPMPCFGElem(p, cfgIndex).mode
    ELSE IF i < numBytes
    THEN BitAnd(byteOf(newValue, i), WM64_pmpcfg[i + 1], 8)
    ELSE 0

\* the update of one entry of the register
writePMPCFGElem(p, artifactAccess, cfgIndex, src) ==
    IF p.cfg[cfgIndex] # src /\ ~pmpLocked(p, artifactAccess, cfgIndex)
    THEN invalidatePMPEntry(
             [invalidatePMPEntry(p, cfgIndex) EXCEPT !.cfg[cfgIndex] = src],
             cfgIndex)
    ELSE p

RECURSIVE writePMPCFGLoop(_, _, _, _, _)

\* the loop of riscvVMWritePMPCFG from entry i of the register down to 0
writePMPCFGLoop(p, artifactAccess, index, newValue, i) ==
    IF i < 0 THEN p
    ELSE writePMPCFGLoop(
             writePMPCFGElem(p, artifactAccess, index * 4 + i,
                 srcCFG(p, index * 4 + i, newValue, i,
                        getNumPMPs - getPMPCFGOffset(index) * entriesPerCFG)),
             artifactAccess, index, newValue, i - 1)

\* the PMP state that the write leaves and the value that it returns
writePMPCFGResult(p, index) == [p |-> p, result |-> readPMPCFGInt(p, index)]

writePMPCFG(p, artifactAccess, index, newValue) ==
    IF validPMPCFG(index)
    THEN writePMPCFGResult(writePMPCFGLoop(p, artifactAccess, index, newValue,
                                           entriesPerCFG - 1),
                           index)
    ELSE [p |-> p, result |-> Zero64]

validPMPAddr(index) == index < getNumPMPs

riscvVMReadPMPAddr(p, index) ==
    IF validPMPAddr(index) THEN getEffectivePMPAddr(p, index) ELSE Zero64

\* the value written, masked to the address bus and the grain
maskPMPAddr(newValue) ==
    IF cfg.PMP_grain # 0
    THEN And64(And64(newValue, Shr64(getAddressMask(cfg.extBits), 2)),
               Shl64(Not64(Zero64), cfg.PMP_grain - 1))
    ELSE And64(newValue, Shr64(getAddressMask(cfg.extBits), 2))

\* the PMP state that the write leaves and the value that it returns
writePMPAddr(p, artifactAccess, index, newValue) ==
    IF validPMPAddr(index) /\ p.addr[index] # maskPMPAddr(newValue)
    THEN IF \/ pmpLocked(p, artifactAccess, index)
            \/ pmpLockedTOR(p, artifactAccess, index + 1)
         THEN [p |-> p, result |-> getEffectivePMPAddr(p, index)]
         ELSE [p      |-> invalidatePMPEntry(
                              [invalidatePMPEntry(p, index)
                                  EXCEPT !.addr[index] = maskPMPAddr(newValue)],
                              index),
               result |-> getEffectivePMPAddr(
                              [p EXCEPT !.addr[index] = maskPMPAddr(newValue)],
                              index)]
    ELSE [p |-> p, result |-> Zero64]

RECURSIVE resetPMP(_, _)

\* the loop of riscvVMResetPMP from entry i upwards
resetPMP(p, i) ==
    IF i >= getNumPMPs THEN p
    ELSE IF p.addr[i] # Zero64 \/ p.cfg[i] # 0
    THEN resetPMP([invalidatePMPEntry(p, i) EXCEPT !.addr[i] = Zero64,
                                                   !.cfg[i] = 0],
                  i + 1)
    ELSE resetPMP(p, i + 1)

\* a region that gives mode M its priv bits although it is not locked
refinePMPRegionPrivAnyMode(p, mode, index) ==
    privOfBits(getPMPCFGElem(p, index).priv)

\* the privilege that a matching region gives: in mode M an entry that is
\* not locked gives every privilege
refinePMPRegionPriv(p, mode, index) ==
    IF mode # "M" \/ getPMPCFGElem(p, index).L = 1
    THEN privOfBits(getPMPCFGElem(p, index).priv)
    ELSE MEM_PRIV_RWX

\* r holds the bounds and the privilege found so far for address PA
refinePMPRegionBounds(p, mode, r, PA, index, b) ==
    IF Lt64(b.high, b.low) THEN r
    ELSE IF Le64(b.low, PA) /\ Le64(PA, b.high)
    THEN [lowPA |-> b.low, highPA |-> b.high,
          priv  |-> refinePMPRegionPriv(p, mode, index)]
    ELSE IF Lt64(PA, b.low) /\ Lt64(b.low, r.highPA)
    THEN [r EXCEPT !.highPA = Sub64(b.low, U64(1))]
    ELSE IF Lt64(b.high, PA) /\ Lt64(r.lowPA, b.high)
    THEN [r EXCEPT !.lowPA = Add64(b.high, U64(1))]
    ELSE r

refinePMPRegionRange(p, mode, r, PA, index) ==
    IF getPMPRegionActive(p, getPMPCFGElem(p, index), index)
    THEN refinePMPRegionBounds(p, mode, r, PA, index, getPMPEntryBounds(p, index))
    ELSE r

RECURSIVE mapPMPScanUp(_, _, _, _, _)

\* a scan over the entries from index 0 up to i
mapPMPScanUp(p, mode, r, PA, i) ==
    IF i < 0 THEN r
    ELSE refinePMPRegionRange(p, mode, mapPMPScanUp(p, mode, r, PA, i - 1), PA, i)

RECURSIVE mapPMPScan(_, _, _, _, _)

\* the scan of mapPMP over the entries from index i down to 0
mapPMPScan(p, mode, r, PA, i) ==
    IF i < 0 THEN r
    ELSE mapPMPScan(p, mode, refinePMPRegionRange(p, mode, r, PA, i), PA, i - 1)

\* a test of the privilege only
mapPMPRefusedForPriv(requiredPriv, highPA, r) ==
    ~(requiredPriv \subseteq r.priv)

\* the access lacks a privilege or ends beyond the bounds found
mapPMPRefused(requiredPriv, highPA, r) ==
    ~(requiredPriv \subseteq r.priv) \/ Lt64(r.highPA, highPA)

\* r is the outcome of the scan: the access is refused with cause PMP, or
\* the privilege of the region is set on [r.lowPA, r.highPA]
mapPMPDone(m, mode, requiredPriv, lowPA, highPA, r) ==
    IF mapPMPRefused(requiredPriv, highPA, r)
    THEN [m EXCEPT !.AFErrorIn = "riscv_AFault_PMP",
                   !.pmaps = Append(@, [mode |-> mode, requiredPriv |-> requiredPriv,
                                        lowPA |-> lowPA, highPA |-> highPA,
                                        lowMap |-> r.lowPA, highMap |-> r.highPA,
                                        priv |-> r.priv, granted |-> FALSE])]
    ELSE [m EXCEPT !.pmp = setPMPPriv(@, mode, r.lowPA, r.highPA, r.priv, TRUE),
                   !.pmaps = Append(@, [mode |-> mode, requiredPriv |-> requiredPriv,
                                        lowPA |-> lowPA, highPA |-> highPA,
                                        lowMap |-> r.lowPA, highMap |-> r.highPA,
                                        priv |-> r.priv, granted |-> TRUE])]

mapPMP(m, mode, requiredPriv, lowPA, highPA) ==
    IF getNumPMPs # 0
    THEN mapPMPDone(m, mode, requiredPriv, lowPA, highPA,
             mapPMPScan(m.pmp, mode,
                        [lowPA |-> Zero64, highPA |-> getAddressMask(cfg.extBits),
                         priv  |-> IF mode = "M" THEN MEM_PRIV_RWX ELSE MEM_PRIV_NONE],
                        lowPA, getNumPMPs - 1))
    ELSE m

----------------------------------------------------------------------------
(* Mapping a translated range, and the miss handler                        *)

vmiPageMax == Shl64(U64(1), 32)

\* the alias created for [lowVA, highVA] and the entry marked as mapped; the
\* physical bounds of the access itself, [mi.lowVA, mi.highVA], go to mapPMP
mapTLBEntryAlias(m, VA, entry1, entry2, domainV, mode, requiredPriv, mi, lowVA, highVA, lowPA, highPA, ASIDMask) ==
    [m  |-> [mapPMP(m, mode, requiredPriv, Add64(mi.lowVA, Sub64(lowPA, lowVA)),
                    Add64(mi.highVA, Sub64(lowPA, lowVA)))
                 EXCEPT !.dom = vmirtAliasMemoryVM(m.dom, domainV, lowPA, highPA,
                                  lowVA, mi.priv, ASIDMask, entry1.simASID),
                      !.tlb[entry1.tlb] =
                          (@ \ {entry1})
                          \cup {[entry1 EXCEPT !.mapped = @ \cup getModeMask(mode)]},
                      !.maps = Append(@,
                          [alias  |-> vmAlias(domainV, lowPA, highPA, lowVA, mi.priv,
                                              ASIDMask, entry1.simASID),
                           entry1 |-> [entry1 EXCEPT
                                          !.mapped = @ \cup getModeMask(mode)],
                           entry2 |-> entry2,
                           VA     |-> VA])],
     mi |-> [mi EXCEPT !.lowVA = lowVA, !.highVA = highVA]]

\* the physical bounds of the region [lowVA, highVA] to map
mapTLBEntryRange(m, VA, entry1, entry2, domainV, mode, requiredPriv, mi, lowVA, highVA) ==
    LET VAtoPA == IF entry2 # {}
                  THEN Add64(getEntryVAtoPA(entry1),
                             getEntryVAtoPA(CHOOSE x \in entry2 : TRUE))
                  ELSE getEntryVAtoPA(entry1)
    IN  mapTLBEntryAlias(m, VA, entry1, entry2, domainV, mode, requiredPriv, mi,
            lowVA, highVA,
            Add64(lowVA, VAtoPA), Add64(highVA, VAtoPA),
            IF entry2 # {}
            THEN getEntryASIDMask(entry1, mode)
                     \cup getEntryASIDMask(CHOOSE x \in entry2 : TRUE, mode)
            ELSE getEntryASIDMask(entry1, mode))

\* the stage 1 bounds taken as they are
mapTLBEntryStage2Wide(m, VA, GPA, entry1, entry2, domainV, mode, requiredPriv, mi, lowVA, highVA) ==
    mapTLBEntryRange(m, VA, entry1, entry2, domainV, mode, requiredPriv, mi,
                     lowVA, highVA)

\* the stage 1 bounds [lowVA, highVA] narrowed to what stage 2 maps
mapTLBEntryStage2(m, VA, GPA, entry1, entry2, domainV, mode, requiredPriv, mi, lowVA, highVA) ==
    LET e2       == CHOOSE x \in entry2 : TRUE
        loDelta1 == Sub64(VA, lowVA)
        loDelta2 == Sub64(GPA, e2.lowVA)
        hiDelta1 == Sub64(highVA, VA)
        hiDelta2 == Sub64(e2.highVA, GPA)
    IN  mapTLBEntryRange(m, VA, entry1, entry2, domainV, mode, requiredPriv, mi,
            IF entry2 # {} /\ Lt64(loDelta2, loDelta1)
            THEN Add64(lowVA, Sub64(loDelta1, loDelta2)) ELSE lowVA,
            IF entry2 # {} /\ Lt64(hiDelta2, hiDelta1)
            THEN Sub64(highVA, Sub64(hiDelta1, hiDelta2)) ELSE highVA)

\* mi is the tlbMapInfo [lowVA, highVA, priv]; entry2 is optional.  The
\* physical range of the footprint is then mapped by mapPMP.
mapTLBEntry(m, VA, GPA, entry1, entry2, domainV, mode, requiredPriv, mi) ==
    IF Lt64(vmiPageMax, getEntrySize(entry1))
    THEN mapTLBEntryStage2(m, VA, GPA, entry1, entry2, domainV, mode, requiredPriv, mi,
             AlignDown64(mi.lowVA, 32),
             Sub64(Add64(AlignDown64(mi.lowVA, 32), vmiPageMax), U64(1)))
    ELSE mapTLBEntryStage2(m, VA, GPA, entry1, entry2, domainV, mode, requiredPriv, mi,
             entry1.lowVA, entry1.highVA)

\* tlbMiss returning entry1 in place of !entry1
tlbMissReturnsEntry(mp, entry1) ==
    [m |-> mp.m, mi |-> mp.mi, miss |-> entry1 # {}]

\* the return value of tlbMiss is !entry1
tlbMissReturn(mp, entry1) ==
    [m |-> mp.m, mi |-> mp.mi, miss |-> entry1 = {}]

\* the mapping made when both stages gave an entry
tlbMissMap(m, inp, mi, GPA, entry1, entry2, priv) ==
    IF entry1 # {}
    THEN tlbMissReturn(mapTLBEntry(m, mi.lowVA, GPA, CHOOSE x \in entry1 : TRUE,
                                   entry2, <<inp.mode, inp.isCode>>, inp.mode,
                                   mi.priv, [mi EXCEPT !.priv = priv]),
                       entry1)
    ELSE tlbMissReturn([m |-> m, mi |-> mi], entry1)

\* r2 is the outcome of the second stage for guest physical address GPA
tlbMissStage2(inp, mi, r1, GPA, r2) ==
    tlbMissMap(r2.m, inp, mi, GPA,
               IF r2.entry = {} THEN {} ELSE r1.entry,
               r2.entry,
               IF r2.entry # {} THEN r1.priv \cap r2.priv ELSE r1.priv)

\* the guest physical address that entry1 gives VA
tlbMissGPA(inp, mi, cx1, r1, GPA) ==
    tlbMissStage2(inp, mi, r1, GPA,
        getTLBStageEntry(r1.m,
            [cx1 EXCEPT !.activeTLB = RISCV_TLB_VS2, !.s2Active = TRUE,
                        !.s1VA = mi.lowVA],
            GPA))

\* r1 is the outcome of the current stage
tlbMissStage1(inp, mi, cx1, r1) ==
    IF r1.entry # {} /\ cx1.activeTLB = RISCV_TLB_VS1 /\ csr.hgatp.MODE # 0
    THEN tlbMissGPA(inp, mi, cx1, r1,
             Sub64(Add64(mi.lowVA, (CHOOSE x \in r1.entry : TRUE).PA),
                   (CHOOSE x \in r1.entry : TRUE).lowVA))
    ELSE tlbMissMap(r1.m, inp, mi, mi.lowVA, r1.entry, {}, r1.priv)

\* the translation context of the current stage
stageContext(inp, mi) ==
    [activeTLB |-> getCurrentTLBId, mode |-> inp.mode, requiredPriv |-> mi.priv,
     attrsArtifact |-> inp.attrsArtifact, artifactAccess |-> inp.artifactAccess,
     scanArtifactFirst |-> inp.scanArtifactFirst,
     s2Active |-> FALSE, s1VA |-> Zero64, s2Offset |-> Zero64]

\* inp holds the arguments of riscvVMMiss that every segment shares
tlbMiss(m, inp, mi) ==
    tlbMissStage1(inp, mi, stageContext(inp, mi),
                  getTLBStageEntry(m, stageContext(inp, mi), mi.lowVA))

RECURSIVE missLoop(_, _, _, _, _)

\* a loop that ends after its first segment
missLoopNextOnce(inp, requiredPriv, lastVA, t) ==
    [m |-> t.m, miss |-> t.miss]

\* the loop condition of riscvVMMiss, t the outcome of tlbMiss
missLoopNext(inp, requiredPriv, lastVA, t) ==
    IF ~t.miss /\ (Lt64(lastVA, t.mi.lowVA) \/ Lt64(t.mi.highVA, lastVA))
    THEN missLoop(t.m, inp, requiredPriv, lastVA, t.mi.highVA)
    ELSE [m |-> t.m, miss |-> t.miss]

\* the do-while loop of riscvVMMiss over the segments of the footprint,
\* entered with mi.highVA = prevHighVA
missLoop(m, inp, requiredPriv, lastVA, prevHighVA) ==
    missLoopNext(inp, requiredPriv, lastVA,
                 tlbMiss(m, inp, [lowVA |-> Add64(prevHighVA, U64(1)),
                                  highVA |-> lastVA, priv |-> requiredPriv]))

\* inp.dt is the class of the domain the access is made to
\* (DT_VIRT, DT_PHYS, DT_PMP, or none of them)
riscvVMMissCall(m, inp, requiredPriv, address, bytes) ==
    IF inp.dt = "DT_VIRT"
    THEN missLoop([m EXCEPT !.AFErrorIn = "riscv_AFault_Bus"], inp, requiredPriv,
                  Sub64(Add64(address, U64(bytes)), U64(1)),
                  Sub64(address, U64(1)))
    ELSE IF inp.dt # ""
    THEN [m    |-> mapPMP([m EXCEPT !.AFErrorIn = "riscv_AFault_Bus"], inp.mode,
                          requiredPriv, address,
                          Sub64(Add64(address, U64(bytes)), U64(1))),
          miss |-> FALSE]
    ELSE [m |-> [m EXCEPT !.AFErrorIn = "riscv_AFault_Bus"], miss |-> FALSE]

----------------------------------------------------------------------------
(* Invalidation entry points                                               *)

\* the ASID argument taken as it is
maskASIDNone(ASID) == ASID

\* satp.ASID is 16 bits wide at XLEN 64 and 9 bits wide at XLEN 32
maskASID(ASID) ==
    BitAnd(IF cfg.xlen = 32 THEN ASID % 2^9 ELSE ASID % 2^16, getASIDMask, 16)

RISCV_MAX_ADDR == Not64(Zero64)

invalidateAll(m, id) ==
    invalidateTLBEntriesRange(m, id, Zero64, RISCV_MAX_ADDR, "MM_ANY", 0)

invalidateAllASID(m, ASID, id) ==
    invalidateTLBEntriesRange(m, id, Zero64, RISCV_MAX_ADDR, "MM_ASID", maskASID(ASID))

\* an invalidation that removes nothing
invalidateNoVA(m, VA, id) == m

invalidateVA(m, VA, id) ==
    invalidateTLBEntriesRange(m, id, VA, VA, "MM_ANY", 0)

invalidateVAASID(m, VA, ASID, id) ==
    invalidateTLBEntriesRange(m, id, VA, VA, "MM_ASID", maskASID(ASID))

----------------------------------------------------------------------------
(* The page tables in memory at construction                               *)

PTEAddrOf(tablePPN, index, pteBytes) ==
    Add64(Shl64(U64(tablePPN), 12), U64(index * pteBytes))

Ptr(ppn) ==
    [V |-> TRUE, priv |-> {}, U |-> FALSE, G |-> FALSE, A |-> FALSE, D |-> FALSE,
     PPN |-> U64(ppn)]

Leaf(ppn, priv, U, G, A, D) ==
    [V |-> TRUE, priv |-> priv, U |-> U, G |-> G, A |-> A, D |-> D, PPN |-> U64(ppn)]

\* Sv39 tables of the HS address space, root at PPN 0x80000
HSRootPPN == 2^19

HSTables ==
    <<  <<PTEAddrOf(HSRootPPN, 0, 8), Ptr(HSRootPPN + 1)>>,
        <<PTEAddrOf(HSRootPPN, 1, 8), Leaf(262144, {"R", "W", "X"}, FALSE, TRUE, TRUE, TRUE)>>,
        <<PTEAddrOf(HSRootPPN, 2, 8), Leaf(262145, {"R", "W", "X"}, FALSE, TRUE, TRUE, TRUE)>>,
        <<PTEAddrOf(HSRootPPN, 3, 8), Ptr(HSRootPPN + 4096)>>,
        <<PTEAddrOf(HSRootPPN, 255, 8), Leaf(3 * 262144, {"R", "W"}, TRUE, FALSE, TRUE, TRUE)>>,
        <<PTEAddrOf(HSRootPPN, 256, 8), Leaf(3 * 262144, {"R", "W"}, TRUE, FALSE, TRUE, TRUE)>>,
        <<PTEAddrOf(HSRootPPN + 1, 0, 8), Ptr(HSRootPPN + 2)>>,
        <<PTEAddrOf(HSRootPPN + 2, 0, 8), Leaf(524304, {"R", "W", "X"}, TRUE, FALSE, FALSE, FALSE)>>,
        <<PTEAddrOf(HSRootPPN + 2, 1, 8), Leaf(524305, {"R"}, TRUE, FALSE, TRUE, FALSE)>>,
        <<PTEAddrOf(HSRootPPN + 2, 2, 8), Ptr(HSRootPPN + 3)>>,
        <<PTEAddrOf(HSRootPPN + 2, 3, 8), Leaf(524307, {"W"}, TRUE, FALSE, TRUE, TRUE)>>,
        <<PTEAddrOf(HSRootPPN + 2, 5, 8), Leaf(524309, {"R", "W"}, TRUE, FALSE, FALSE, FALSE)>>,
        <<PTEAddrOf(HSRootPPN + 2, 6, 8), Leaf(524310, {"R", "W"}, TRUE, FALSE, TRUE, FALSE)>>,
        <<PTEAddrOf(HSRootPPN + 2, 511, 8), Leaf(524311, {"R", "W"}, TRUE, FALSE, TRUE, TRUE)>>,
        <<PTEAddrOf(HSRootPPN + 1, 1, 8), Leaf(524800, {"R", "W"}, TRUE, FALSE, TRUE, TRUE)>>  >>

MemImage(T) ==
    [a \in {T[i][1] : i \in 1..Len(T)} |-> T[CHOOSE i \in 1..Len(T) : T[i][1] = a][2]]

\* Sv48 tables of the guest (VS stage 1): the root's first entry points to
\* the HS root, so that the guest maps what HS maps, to guest physical
\* addresses
VSRootPPN == HSRootPPN + 8

\* the second entry of the root maps the 512G at virtual 512G to the same
\* guest physical addresses
VSTables ==
    <<  <<PTEAddrOf(VSRootPPN, 0, 8), Ptr(HSRootPPN)>>,
        <<PTEAddrOf(VSRootPPN, 1, 8), Leaf(2^27, {"R", "W"}, TRUE, FALSE, TRUE, TRUE)>>  >>

\* Sv48 tables of a second guest address space: the 4K page at virtual 0
\* maps to guest physical 0x1000
VS2RootPPN == HSRootPPN + 12

VS2Tables ==
    <<  <<PTEAddrOf(VS2RootPPN, 0, 8), Ptr(HSRootPPN + 13)>>,
        <<PTEAddrOf(HSRootPPN + 13, 0, 8), Ptr(HSRootPPN + 14)>>,
        <<PTEAddrOf(HSRootPPN + 14, 0, 8), Ptr(HSRootPPN + 15)>>,
        <<PTEAddrOf(HSRootPPN + 15, 0, 8), Leaf(1, {"R", "W"}, TRUE, FALSE, TRUE, TRUE)>>  >>

\* Sv48x4 tables of stage 2: the gigapage at guest physical 2G maps to
\* itself, the 2M page at guest physical 0 to 0x200000, the 2M page at guest
\* physical 3G to 0x80200000 and the 512G at guest physical 512G to 1T; the
\* first entry of the second and of the fourth page of the root table (16K)
\* is a leaf
GRootPPN == HSRootPPN + 32

GTables ==
    <<  <<PTEAddrOf(GRootPPN, 0, 8), Ptr(HSRootPPN + 9)>>,
        <<PTEAddrOf(HSRootPPN + 9, 2, 8),
          Leaf(HSRootPPN, {"R", "W", "X"}, TRUE, FALSE, TRUE, FALSE)>>,
        <<PTEAddrOf(HSRootPPN + 9, 0, 8), Ptr(HSRootPPN + 11)>>,
        <<PTEAddrOf(HSRootPPN + 11, 0, 8),
          Leaf(512, {"R", "W", "X"}, TRUE, FALSE, TRUE, TRUE)>>,
        <<PTEAddrOf(HSRootPPN + 9, 3, 8), Ptr(HSRootPPN + 10)>>,
        <<PTEAddrOf(HSRootPPN + 10, 0, 8),
          Leaf(HSRootPPN + 512, {"R", "W", "X"}, TRUE, FALSE, TRUE, TRUE)>>,
        <<PTEAddrOf(GRootPPN, 1, 8),
          Leaf(2^28, {"R", "W", "X"}, TRUE, FALSE, TRUE, TRUE)>>,
        <<PTEAddrOf(GRootPPN + 1, 0, 8),
          Leaf(0, {"R", "W", "X"}, TRUE, FALSE, TRUE, TRUE)>>,
        <<PTEAddrOf(GRootPPN + 3, 0, 8),
          Leaf(0, {"R", "W", "X"}, TRUE, FALSE, FALSE, FALSE)>>  >>

\* page table entry addresses that lie in read-only memory
ROMAddrs == {PTEAddrOf(HSRootPPN + 2, 5, 8)}

----------------------------------------------------------------------------
(* The state machine.  csr holds the CSR fields this file reads, cfg the   *)
(* configuration, mem the page tables, tlb the three TLBs, dom the domain  *)
(* aliases, pasid the simulated ASID last passed to vmirtSetProcessorASID, *)
(* res the arguments and outcome of the call in progress with the state    *)
(* it was made in, calls the number                                        *)
(* of calls made since construction, fenced the addresses that              *)
(* riscvVMInvalidateVA was called for since the last miss, each with the   *)
(* TLB that the call was routed to.                                        *)

\* calls explored from construction
MaxCalls == 3

\* a context of HS mode: Sv39 translation with the given satp.ASID
CSRWith(V, satpASID, SUM) ==
    [V       |-> V,
     satp    |-> [MODE |-> 8, ASID |-> satpASID, PPN |-> U64(HSRootPPN)],
     vsatp   |-> [MODE |-> 0, ASID |-> 0, PPN |-> Zero64],
     hgatp   |-> [MODE |-> 0, VMID |-> 0, PPN |-> Zero64],
     mstatus |-> [MXR |-> 0, SUM |-> SUM],
     vsstatus |-> [MXR |-> 0, SUM |-> 0]]

\* a context of a guest: Sv48 stage 1 with the given vsatp.ASID, and Sv48x4
\* stage 2 (hgatpMODE 9) or none (hgatpMODE 0) with the given hgatp.VMID
GuestCSRWith(vsatpASID, VMID, hgatpMODE) ==
    [V       |-> TRUE,
     satp    |-> [MODE |-> 8, ASID |-> 3, PPN |-> U64(HSRootPPN)],
     vsatp   |-> [MODE |-> 9, ASID |-> vsatpASID, PPN |-> U64(VSRootPPN)],
     hgatp   |-> [MODE |-> hgatpMODE, VMID |-> VMID, PPN |-> U64(GRootPPN)],
     mstatus |-> [MXR |-> 0, SUM |-> 1],
     vsstatus |-> [MXR |-> 0, SUM |-> 1]]

ConfigWith(ASIDMask, updateA, updateD) ==
    [ASIDMask |-> ASIDMask, updatePTEA |-> updateA, updatePTED |-> updateD,
     privVersion |-> 111, xlen |-> 64, rom |-> ROMAddrs,
     PMP_registers |-> 0, PMP_grain |-> 0, extBits |-> 56, flen |-> 64,
     unaligned |-> FALSE, unified |-> TRUE]

NoInput ==
    [dt |-> "", mode |-> "", isCode |-> FALSE, attrsArtifact |-> FALSE,
     artifactAccess |-> FALSE, scanArtifactFirst |-> FALSE]

\* the part of the state that a call is compared against afterwards
Before == [tlb |-> tlb, mem |-> mem, dom |-> dom, fenced |-> fenced, pmp |-> pmp]

----------------------------------------------------------------------------
(* TLB save and restore.  The save context is the sequence of the elements *)
(* written: one RISCV_TLB_ENTRY element for each entry saved, holding the  *)
(* bytes of the entry, and one empty element that ends each TLB.           *)

RISCV_TLB_ENTRY == "TLB_ENTRY"
RISCV_TLB_END == "TLB_END"

\* vmirtSaveElement of an entry, and of the terminator
entryElement(entryS) == [name |-> RISCV_TLB_ENTRY, data |-> {entryS}]

endElement == [name |-> RISCV_TLB_END, data |-> {}]

\* an entry saved with its mapped mask
saveTLBEntryAsMapped(cxt, entry) == Append(cxt, entryElement(entry))

saveTLBEntry(cxt, entry) ==
    Append(cxt, entryElement([entry EXCEPT !.mapped = {}]))

\* the entries of one scan saved one after the other
RECURSIVE saveTLBEntries(_, _)
saveTLBEntries(cxt, S) ==
    IF S = {}
    THEN cxt
    ELSE LET e == CHOOSE x \in S : TRUE
         IN  saveTLBEntries(saveTLBEntry(cxt, e), S \ {e})

\* the scan of the whole TLB deletes the artifact entries it meets; the
\* result is the machine and the save context
saveTLB(m, id, cxt) ==
    [m   |-> deleteTLBEntries(m, id, {e \in m.tlb[id] : e.artifact}),
     cxt |-> Append(saveTLBEntries(cxt, {e \in m.tlb[id] : ~e.artifact}),
                    endElement)]

\* the TLBs in the order of their identifiers
TLBOrder == <<RISCV_TLB_HS, RISCV_TLB_VS1, RISCV_TLB_VS2>>

\* r is what the TLBs before the one numbered id left
RECURSIVE saveVMFrom(_, _)
saveVMFrom(r, id) ==
    IF id > Len(TLBOrder)
    THEN r
    ELSE saveVMFrom(saveTLB(r.m, TLBOrder[id], r.cxt), id + 1)

saveVM(m, cxt) == saveVMFrom([m |-> m, cxt |-> cxt], 1)

restoreTLBEntry(m, id, new) == [m EXCEPT !.tlb[id] = @ \cup {new}]

\* the elements of the restore context read until one is not an entry,
\* which is consumed as well
RECURSIVE restoreTLB(_, _, _)
restoreTLB(m, id, cxt) ==
    IF cxt = <<>>
    THEN [m |-> m, cxt |-> cxt]
    ELSE IF Head(cxt).name # RISCV_TLB_ENTRY
    THEN [m |-> m, cxt |-> Tail(cxt)]
    ELSE restoreTLB(restoreTLBEntry(m, id, CHOOSE e \in Head(cxt).data : TRUE),
                    id, Tail(cxt))

\* one TLB of restoreVM: emptied, then filled from the context
restoreVMTLB(m, id, cxt) ==
    restoreTLB(invalidateTLBEntriesRange(m, id, Zero64, RISCV_MAX_ADDR, "MM_ANY", 0),
               id, cxt)

\* r is what the TLBs before the one numbered id left
RECURSIVE restoreVMFrom(_, _)
restoreVMFrom(r, id) ==
    IF id > Len(TLBOrder)
    THEN r
    ELSE restoreVMFrom(restoreVMTLB(r.m, TLBOrder[id], r.cxt), id + 1)

restoreVM(m, cxt) == restoreVMFrom([m |-> m, cxt |-> cxt], 1)

\* the PMP state at construction: every register zero, and the PMP
\* domains without any privilege, when a PMP register is implemented
NoPMP ==
    [cfg  |-> [i \in 0..(8 * ((cfg.PMP_registers + 7) \div 8) - 1) |-> 0],
     addr |-> [i \in 0..(cfg.PMP_registers - 1) |-> Zero64],
     prot |-> <<>>]

NoBefore ==
    [tlb |-> [id \in TLBIds |-> {}], mem |-> MemImage(<<>>), dom |-> {},
     fenced |-> {}, pmp |-> NoPMP]

NoResult ==
    [op |-> "", inp |-> NoInput, priv |-> {}, address |-> Zero64, bytes |-> 0,
     ASID |-> 0, ret |-> FALSE, exc |-> <<>>, walks |-> <<>>, hits |-> <<>>,
     maps |-> <<>>, pmaps |-> <<>>, AFErrorIn |-> "", index |-> 0,
     newValue |-> Zero64, result |-> Zero64, activeTLB |-> "", entry |-> {},
     perm |-> {}, phase |-> "", pre |-> NoBefore]

\* the state that a call starts in: AFErrorIn is set by riscvVMMiss before
\* it is read; exc, walks, hits, maps and pmaps record what the call does
Machine == [tlb |-> tlb, mem |-> mem, dom |-> dom, pmp |-> pmp,
            AFErrorIn |-> "", exc |-> <<>>, walks |-> <<>>,
            hits |-> <<>>, maps |-> <<>>, pmaps |-> <<>>]

\* construction (riscvVMInit): empty TLBs, no alias; the CSRs and the
\* configuration are those of one of the given settings
InitWith(contexts, configs) ==
    /\ csr \in contexts
    /\ cfg \in configs
    /\ mem = MemImage(HSTables \o VSTables \o VS2Tables \o GTables)
    /\ tlb = [id \in TLBIds |-> {}]
    /\ dom = {}
    /\ pasid = getSimASIDOf(csr)
    /\ pmp = NoPMP
    /\ res = NoResult
    /\ calls = 0
    /\ fenced = {}
    /\ stream = <<>>

\* the caller is between calls: the result of the last call has been consumed
Idle == res.op = "" /\ calls < MaxCalls

\* an access: mode, requiredPriv, attrs and riscv->artifactAccess
Access(mode, priv, attrsArtifact, artifactAccess) ==
    [dt |-> "DT_VIRT", mode |-> mode, isCode |-> priv = MEM_PRIV_X, priv |-> priv,
     attrsArtifact |-> attrsArtifact, artifactAccess |-> artifactAccess]

\* an access to the physical domain of a mode: not one that this file maps
PhysAccess(mode, priv) ==
    [Access(mode, priv, FALSE, FALSE) EXCEPT !.dt = "DT_PHYS"]

\* the order of a range scan can matter only when an artifact entry exists
ScanOrders ==
    IF \E id \in TLBIds : \E e \in tlb[id] : e.artifact THEN BOOLEAN ELSE {FALSE}

\* the call made with arguments inp and outcome r
Missed(inp, priv, address, bytes, r) ==
    /\ tlb' = r.m.tlb
    /\ mem' = r.m.mem
    /\ dom' = r.m.dom
    /\ pmp' = r.m.pmp
    /\ res' = [NoResult EXCEPT !.op = "riscvVMMiss", !.inp = inp,
                               !.priv = priv, !.address = address,
                               !.bytes = bytes, !.ret = r.miss,
                               !.exc = r.m.exc, !.walks = r.m.walks,
                               !.hits = r.m.hits, !.maps = r.m.maps,
                               !.pmaps = r.m.pmaps,
                               !.AFErrorIn = r.m.AFErrorIn, !.pre = Before]
    /\ calls' = calls + 1
    /\ UNCHANGED stream
    /\ fenced' = {}
    /\ UNCHANGED <<csr, cfg, pasid>>

riscvVMMiss(acc, address, bytes) ==
    /\ Idle
    /\ modeIsVirtual(acc.mode) = inVMode
    /\ acc.dt = "DT_VIRT" => getCurrentTLBId # RISCV_TLB_LAST
    /\ \E scanArtifactFirst \in ScanOrders :
        LET inp == [dt |-> acc.dt, mode |-> acc.mode, isCode |-> acc.isCode,
                    attrsArtifact |-> acc.attrsArtifact,
                    artifactAccess |-> acc.artifactAccess,
                    scanArtifactFirst |-> scanArtifactFirst]
        IN  Missed(inp, acc.priv, address, bytes,
                   riscvVMMissCall(Machine, inp, acc.priv, address, bytes))

\* the state an invalidation leaves: m holds the TLBs and aliases kept
Invalidated(op, m, VA, ASID) ==
    /\ tlb' = m.tlb
    /\ dom' = m.dom
    /\ res' = [NoResult EXCEPT !.op = op, !.address = VA, !.ASID = ASID,
                               !.pre = Before]
    /\ calls' = calls + 1
    /\ UNCHANGED stream
    /\ UNCHANGED <<csr, cfg, mem, pasid, pmp>>

riscvVMInvalidateAll ==
    /\ Idle
    /\ Invalidated("riscvVMInvalidateAll", invalidateAll(Machine, getS1TLBId),
                   Zero64, 0)
    /\ UNCHANGED fenced

riscvVMInvalidateAllASID(ASID) ==
    /\ Idle
    /\ Invalidated("riscvVMInvalidateAllASID",
                   invalidateAllASID(Machine, ASID, getS1TLBId), Zero64, ASID)
    /\ UNCHANGED fenced

riscvVMInvalidateVA(VA) ==
    /\ Idle
    /\ Invalidated("riscvVMInvalidateVA", invalidateVA(Machine, VA, getS1TLBId),
                   VA, 0)
    /\ fenced' = fenced \cup {<<getS1TLBId, VA>>}

riscvVMInvalidateVAASID(VA, ASID) ==
    /\ Idle
    /\ Invalidated("riscvVMInvalidateVAASID",
                   invalidateVAASID(Machine, VA, ASID, getS1TLBId), VA, ASID)
    /\ UNCHANGED fenced

\* a CSR write that changes the translation context, followed by the
\* riscvVMSetASID call that makes the new simulated ASID current
riscvVMSetASID(c) ==
    /\ Idle
    /\ c # csr
    /\ csr' = c
    /\ pasid' = getSimASIDOf(c)
    /\ res' = [NoResult EXCEPT !.op = "riscvVMSetASID"]
    /\ calls' = calls + 1
    /\ UNCHANGED stream
    /\ UNCHANGED <<cfg, mem, tlb, dom, pmp, fenced>>

\* the state a write of a PMP register leaves: w holds the PMP state and
\* the value returned
PMPWritten(op, artifactAccess, index, newValue, w) ==
    /\ pmp' = w.p
    /\ res' = [NoResult EXCEPT !.op = op,
                               !.inp = [NoInput EXCEPT
                                           !.artifactAccess = artifactAccess],
                               !.index = index, !.newValue = newValue,
                               !.result = w.result, !.pre = Before]
    /\ calls' = calls + 1
    /\ UNCHANGED stream
    /\ UNCHANGED <<csr, cfg, mem, tlb, dom, pasid, fenced>>

riscvVMWritePMPCFG(artifactAccess, index, newValue) ==
    /\ Idle
    /\ PMPWritten("riscvVMWritePMPCFG", artifactAccess, index, newValue,
                  writePMPCFG(pmp, artifactAccess, index, newValue))

riscvVMWritePMPAddr(artifactAccess, index, newValue) ==
    /\ Idle
    /\ PMPWritten("riscvVMWritePMPAddr", artifactAccess, index, newValue,
                  writePMPAddr(pmp, artifactAccess, index, newValue))

riscvVMResetPMP ==
    /\ Idle
    /\ PMPWritten("riscvVMResetPMP", FALSE, 0, Zero64,
                  [p |-> resetPMP(pmp, 0), result |-> Zero64])

\* riscvVMSave: the TLBs written to a new save context at the end of the
\* save of the core, nothing at any other phase
Saved(phase, r) ==
    /\ tlb' = r.m.tlb
    /\ dom' = r.m.dom
    /\ stream' = r.cxt
    /\ res' = [NoResult EXCEPT !.op = "riscvVMSave", !.phase = phase,
                               !.pre = Before]
    /\ calls' = calls + 1
    /\ UNCHANGED <<csr, cfg, mem, pasid, pmp, fenced>>

riscvVMSave(phase) ==
    /\ Idle
    /\ Saved(phase, IF phase = "SRT_END_CORE" THEN saveVM(Machine, <<>>)
                    ELSE [m |-> Machine, cxt |-> stream])

\* riscvVMRestore: the TLBs read back from the context that a save wrote
Restored(phase, r) ==
    /\ tlb' = r.m.tlb
    /\ dom' = r.m.dom
    /\ res' = [NoResult EXCEPT !.op = "riscvVMRestore", !.phase = phase,
                               !.pre = Before]
    /\ calls' = calls + 1
    /\ UNCHANGED <<csr, cfg, mem, pasid, pmp, fenced, stream>>

riscvVMRestore(phase) ==
    /\ Idle
    /\ stream # <<>>
    /\ Restored(phase, IF phase = "SRT_END_CORE" THEN restoreVM(Machine, stream)
                       ELSE [m |-> Machine, cxt |-> stream])

\* the call returns and its caller consumes the result
Return ==
    /\ res.op # ""
    /\ res' = NoResult
    /\ UNCHANGED <<csr, cfg, mem, tlb, dom, pasid, pmp, calls, fenced, stream>>

\* B bounds the inputs: B.miss the accesses made (access, address, bytes),
\* B.asids and B.vas the arguments of the invalidations, B.contexts the CSR
\* settings switched between
NextWith(B) ==
    \/ \E c \in B.miss : riscvVMMiss(c[1], c[2], c[3])
    \/ riscvVMInvalidateAll
    \/ \E a \in B.asids : riscvVMInvalidateAllASID(a)
    \/ \E va \in B.vas : riscvVMInvalidateVA(va)
    \/ \E va \in B.vas, a \in B.asids : riscvVMInvalidateVAASID(va, a)
    \/ \E c \in B.contexts : riscvVMSetASID(c)
    \/ Return

----------------------------------------------------------------------------
(* Single stage translation in HS mode (Sv39)                              *)

HSContexts == {CSRWith(FALSE, 3, 1), CSRWith(FALSE, 5, 1)}

HSConfigs == {ConfigWith(15, TRUE, TRUE), ConfigWith(15, FALSE, FALSE)}

\* page A: user, RWX, A and D clear
VA_A == U64(0)

\* an access of four bytes here ends in page B: user, read only
VA_AB == U64(4094)

\* page D: user, RW, A set and D clear
VA_D == U64(24576)

\* an access of four bytes here starts in the last 4K page under the first
\* level 0 table and ends in the 2M page that follows it
VA_EM == U64(2^21 - 2)

\* addresses whose table walk faults, one for each other kind of fault
FaultVAs ==
    {U64(8192), U64(12288), U64(16384), U64(20480), Shl64(U64(2), 30),
     Shl64(U64(3), 30), Shl64(U64(1), 39)}

HSBounds ==
    [miss |-> ({Access("U", MEM_PRIV_R, FALSE, FALSE), Access("U", MEM_PRIV_W, FALSE, FALSE),
                Access("U", MEM_PRIV_X, FALSE, FALSE), Access("S", MEM_PRIV_R, FALSE, FALSE),
                Access("U", MEM_PRIV_R, TRUE, TRUE), Access("U", MEM_PRIV_W, TRUE, FALSE)}
               \X {VA_A, VA_AB} \X {4})
              \cup ({Access("U", MEM_PRIV_R, FALSE, FALSE)} \X FaultVAs \X {4})
              \cup ({Access("S", MEM_PRIV_W, FALSE, FALSE),
                     Access("U", MEM_PRIV_W, FALSE, FALSE)} \X {Shl64(U64(1), 30)} \X {4})
              \cup ({Access("U", MEM_PRIV_R, FALSE, FALSE),
                     Access("U", MEM_PRIV_W, FALSE, FALSE)} \X {VA_D} \X {4})
              \cup ({Access("U", MEM_PRIV_R, FALSE, FALSE)} \X {VA_EM} \X {4})
              \cup ({PhysAccess("U", MEM_PRIV_R)} \X {VA_A} \X {4}),
     asids |-> {3, 5},
     vas |-> {VA_A},
     contexts |-> HSContexts]

Init == InitWith({CSRWith(FALSE, 3, 1)}, HSConfigs)

Next == NextWith(HSBounds)

Spec == Init /\ [][Next]_vars

----------------------------------------------------------------------------
(* Two stage translation of a guest (Sv48 and Sv48x4), the hypervisor      *)
(* running in HS mode between guests                                       *)

\* the guests with VMID 1 and 2, and HS mode with the hgatp of each
GuestContexts ==
    {GuestCSRWith(3, 1, 9), GuestCSRWith(3, 2, 9),
     [GuestCSRWith(3, 1, 9) EXCEPT !.V = FALSE],
     [GuestCSRWith(3, 2, 9) EXCEPT !.V = FALSE]}

\* ASID implemented with four bits, and not implemented
GuestConfigs == {ConfigWith(15, TRUE, TRUE), ConfigWith(0, TRUE, TRUE)}

\* the supervisor gigapage, global; its guest physical address is not
\* mapped by stage 2
VA_G == Shl64(U64(1), 30)

\* the page whose PTE lies in read-only memory
VA_ROM == U64(20480)

GuestBounds ==
    [miss |-> ({Access("VU", MEM_PRIV_R, FALSE, FALSE),
                Access("VU", MEM_PRIV_R, TRUE, TRUE),
                Access("U", MEM_PRIV_R, FALSE, FALSE)} \X {VA_A} \X {4})
              \cup ({Access("VU", MEM_PRIV_W, FALSE, FALSE)} \X {VA_AB} \X {4})
              \cup ({Access("VU", MEM_PRIV_R, FALSE, FALSE)} \X {VA_ROM} \X {4})
              \cup ({Access("VS", MEM_PRIV_R, FALSE, FALSE),
                     Access("S", MEM_PRIV_R, FALSE, FALSE)} \X {VA_G} \X {4}),
     asids |-> {3, 5, 19},
     vas |-> {VA_A},
     contexts |-> GuestContexts]

InitV == InitWith({GuestCSRWith(3, 1, 9), [GuestCSRWith(3, 2, 9) EXCEPT !.V = FALSE]},
                  GuestConfigs)

NextV == NextWith(GuestBounds)

SpecV == InitV /\ [][NextV]_vars


----------------------------------------------------------------------------
(* Physical memory protection with three PMP entries: accesses in modes M  *)
(* and S to the PMP domains, between writes of pmpcfg0 and pmpaddr0..2     *)

\* n PMP entries of grain G
PMPConfigWith(n, G) ==
    [ConfigWith(15, TRUE, TRUE) EXCEPT !.PMP_registers = n, !.PMP_grain = G]

PMPConfigs == {PMPConfigWith(3, 0), PMPConfigWith(3, 1), PMPConfigWith(3, 2)}

\* an access to the PMP domain of a mode
PMPAccess(mode, priv) ==
    [Access(mode, priv, FALSE, FALSE) EXCEPT !.dt = "DT_PMP"]

\* the bytes of a pmpcfg value: mode and lock
PMP_TOR == 8 * PMPM_TOR
PMP_NA4 == 8 * PMPM_NA4
PMP_NAPOT == 8 * PMPM_NAPOT
PMP_L == 2^7

\* pmpcfg0 with the bytes b0, b1, b2 and b3 of entries 0 to 3
CFGValue(b0, b1, b2, b3) ==
    <<b0 + 256 * b1, b2 + 256 * b3, 0, 0>>

\* pmpaddr of the NAPOT region [0x1000, 0x1FFF]
PA_NAPOT4K == U64(1535)

\* pmpaddr of the NAPOT region [0x2_0000_0000, 0x2_0000_00FF]
PA_NAPOT256 == Add64(Shl64(U64(1), 31), U64(31))

PMPBounds ==
    [miss  |-> {PMPAccess("M", MEM_PRIV_R), PMPAccess("M", MEM_PRIV_W),
                PMPAccess("S", MEM_PRIV_R), PMPAccess("S", MEM_PRIV_W)}
               \X {U64(0), U64(4096), U64(6144), U64(8190),
                   Add64(Shl64(U64(1), 33), U64(128))}
               \X {4}
               \cup ({PMPAccess("M", MEM_PRIV_W), PMPAccess("S", MEM_PRIV_R)}
                     \X {U64(0)} \X {8}),
     cfgs  |-> ({FALSE} \X {0}
                \X {CFGValue(PMP_L + PMP_NAPOT + 1, 0, 0, 0),
                    CFGValue(PMP_TOR + 7, 0, 0, 0),
                    CFGValue(PMP_NAPOT + 1, PMP_TOR + 7, 0, 0),
                    CFGValue(0, PMP_L + PMP_TOR + 3, PMP_NA4 + 7, 0),
                    CFGValue(96 + PMP_NAPOT + 7, 0, 0, PMP_NAPOT + 7),
                    CFGValue(PMP_NA4 + 1, PMP_NAPOT + 7, 0, 0),
                    CFGValue(0, 0, 0, 0)})
               \cup {<<FALSE, 2, CFGValue(PMP_NAPOT + 7, 0, 0, 0)>>,
                     <<TRUE, 0, CFGValue(0, 0, 0, 0)>>},
     addrs |-> ({FALSE} \X {0, 1, 2}
                \X {PA_NAPOT4K, PA_NAPOT256, U64(2048), U64(1024)})
               \cup {<<FALSE, 0, U64(1)>>, <<FALSE, 3, PA_NAPOT4K>>,
                     <<TRUE, 0, U64(2048)>>}]

InitP == InitWith({CSRWith(FALSE, 3, 1)}, PMPConfigs)

NextP ==
    \/ \E c \in PMPBounds.miss : riscvVMMiss(c[1], c[2], c[3])
    \/ \E w \in PMPBounds.cfgs : riscvVMWritePMPCFG(w[1], w[2], w[3])
    \/ \E w \in PMPBounds.addrs : riscvVMWritePMPAddr(w[1], w[2], w[3])
    \/ riscvVMResetPMP
    \/ Return

SpecP == InitP /\ [][NextP]_vars

----------------------------------------------------------------------------
(* Two stage translation where the pages of the two stages differ in size: *)
(* a guest whose 4K page at virtual 0 lies in a 2M page of stage 2, and a  *)
(* guest with a 1G page over a 2M page of stage 2 and a 512G page over a   *)
(* 512G page of stage 2                                                    *)

\* the guest whose stage 1 root is VS2RootPPN
SmallPageGuest == [GuestCSRWith(3, 1, 9) EXCEPT !.vsatp.PPN = U64(VS2RootPPN)]

\* an address in the 1G page at virtual 255G
VA_1G == Add64(Shl64(U64(255), 30), U64(4096))

\* an address in the second 4G of the 512G page at virtual 512G
VA_512G == Add64(Add64(Shl64(U64(1), 39), Shl64(U64(1), 32)), U64(4096))

NarrowBounds ==
    [miss |-> {Access("VU", MEM_PRIV_R, FALSE, FALSE),
               Access("VU", MEM_PRIV_W, FALSE, FALSE)}
              \X {VA_A, VA_1G, VA_512G} \X {4},
     asids |-> {3},
     vas |-> {VA_A, VA_1G},
     contexts |-> {GuestCSRWith(3, 1, 9), SmallPageGuest}]

InitN == InitWith({GuestCSRWith(3, 1, 9), SmallPageGuest}, {ConfigWith(15, TRUE, TRUE)})

NextN == NextWith(NarrowBounds)

SpecN == InitN /\ [][NextN]_vars

----------------------------------------------------------------------------
(* Reads and writes of a guest to a page that stage 1 maps with D set and  *)
(* stage 2 with D clear, with and without the update of D by the walk      *)

\* the last 4K page under the first level 0 table: user, RW, A and D set;
\* its guest physical address lies in the gigapage of stage 2 at 2G, whose
\* PTE has D clear
VA_E == U64(2^21 - 4096)

DirtyBounds ==
    [miss |-> {Access("VU", MEM_PRIV_R, FALSE, FALSE),
               Access("VU", MEM_PRIV_W, FALSE, FALSE)} \X {VA_E} \X {4},
     asids |-> {3},
     vas |-> {VA_E},
     contexts |-> {GuestCSRWith(3, 1, 9), GuestCSRWith(5, 1, 9)}]

InitD == InitWith({GuestCSRWith(3, 1, 9)},
                  {ConfigWith(15, TRUE, FALSE), ConfigWith(15, TRUE, TRUE)})

NextD == NextWith(DirtyBounds)

SpecD == InitD /\ [][NextD]_vars

----------------------------------------------------------------------------
(* Accesses in two modes to one page, in HS mode and in a guest, between   *)
(* changes of the status bits and of the ASID that the simulated ASID      *)
(* holds                                                                   *)

HSBase == CSRWith(FALSE, 3, 1)

GuestBase == GuestCSRWith(3, 1, 9)

\* each context differs from its base in one field of the simulated ASID
ASIDContexts ==
    {HSBase, CSRWith(FALSE, 3, 0), CSRWith(FALSE, 5, 1),
     [HSBase EXCEPT !.mstatus.MXR = 1],
     [HSBase EXCEPT !.vsstatus.SUM = 1],
     [HSBase EXCEPT !.hgatp.VMID = 2],
     GuestBase,
     [GuestBase EXCEPT !.vsstatus.SUM = 0],
     [GuestBase EXCEPT !.vsstatus.MXR = 1],
     [GuestBase EXCEPT !.mstatus.SUM = 0],
     [GuestBase EXCEPT !.mstatus.MXR = 1],
     [GuestBase EXCEPT !.satp.ASID = 5]}

\* page A is user RWX; the gigapage at 1G is global, for supervisor mode
ASIDBounds ==
    [miss |-> ({Access("U", MEM_PRIV_R, FALSE, FALSE),
                Access("S", MEM_PRIV_R, FALSE, FALSE),
                Access("VU", MEM_PRIV_R, FALSE, FALSE),
                Access("VS", MEM_PRIV_R, FALSE, FALSE)} \X {VA_A} \X {4})
              \cup ({Access("S", MEM_PRIV_R, FALSE, FALSE)} \X {VA_G} \X {4}),
     asids |-> {3},
     vas |-> {VA_A},
     contexts |-> ASIDContexts]

InitA == InitWith({HSBase, GuestBase}, {ConfigWith(15, TRUE, TRUE)})

NextA == NextWith(ASIDBounds)

SpecA == InitA /\ [][NextA]_vars

----------------------------------------------------------------------------
(* Physical memory protection with a top-of-range region: entry 1 is TOR   *)
(* with all privileges, between pmpaddr0 and pmpaddr1 = 0x2000             *)

\* the PMP state that riscvVMWritePMPAddr(1, 0x800) and then
\* riscvVMWritePMPCFG(0, 0x0F00) leave after construction: the second
\* write invalidates the new region [0, 0x1FFF] in the domain of mode S
TORSetUp ==
    [NoPMP EXCEPT !.cfg[1] = PMP_TOR + 7,
                  !.addr[1] = U64(2048),
                  !.prot = <<[domain |-> <<"S", FALSE>>, lo |-> Zero64,
                              hi |-> U64(8191), priv |-> MEM_PRIV_NONE]>>]

TORBounds ==
    [miss  |-> {PMPAccess("M", MEM_PRIV_R), PMPAccess("S", MEM_PRIV_R),
                PMPAccess("S", MEM_PRIV_W)}
               \X {U64(0), U64(4096), U64(6144)} \X {4},
     cfgs  |-> {FALSE} \X {0}
               \X {CFGValue(0, PMP_TOR + 7, 0, 0),
                   CFGValue(0, PMP_L + PMP_TOR + 1, 0, 0),
                   CFGValue(PMP_NAPOT + 1, PMP_TOR + 7, 0, 0),
                   CFGValue(0, 0, 0, 0)},
     addrs |-> {FALSE} \X {0, 1} \X {U64(1024), U64(1792), U64(2048)}]

InitT ==
    /\ csr = CSRWith(FALSE, 3, 1)
    /\ cfg = PMPConfigWith(3, 0)
    /\ mem = MemImage(HSTables \o VSTables \o VS2Tables \o GTables)
    /\ tlb = [id \in TLBIds |-> {}]
    /\ dom = {}
    /\ pasid = getSimASIDOf(csr)
    /\ pmp \in {NoPMP, TORSetUp}
    /\ res = NoResult
    /\ calls = 0
    /\ fenced = {}
    /\ stream = <<>>

NextT ==
    \/ \E c \in TORBounds.miss : riscvVMMiss(c[1], c[2], c[3])
    \/ \E w \in TORBounds.cfgs : riscvVMWritePMPCFG(w[1], w[2], w[3])
    \/ \E w \in TORBounds.addrs : riscvVMWritePMPAddr(w[1], w[2], w[3])
    \/ riscvVMResetPMP
    \/ Return

SpecT == InitT /\ [][NextT]_vars

----------------------------------------------------------------------------
(* Save and restore of the TLBs of a guest, between its accesses, artifact *)
(* accesses or not, and the invalidations                                  *)

SavePhases == {"SRT_BEGIN_CORE", "SRT_END_CORE"}

RoundTripAccesses ==
    {Access("VU", MEM_PRIV_R, FALSE, FALSE), Access("VU", MEM_PRIV_R, TRUE, TRUE)}
        \X {VA_A, VA_D} \X {4}

RoundTripBounds ==
    [miss |-> RoundTripAccesses, asids |-> {3}, vas |-> {VA_A},
     contexts |-> {GuestCSRWith(3, 1, 9), GuestCSRWith(5, 1, 9)}]

InitR == InitWith({GuestCSRWith(3, 1, 9)}, {ConfigWith(15, TRUE, TRUE)})

NextR ==
    \/ NextWith(RoundTripBounds)
    \/ \E phase \in SavePhases : riscvVMSave(phase)
    \/ \E phase \in SavePhases : riscvVMRestore(phase)

SpecR == InitR /\ [][NextR]_vars

----------------------------------------------------------------------------
(* checkEntryPermission applied to the entry of a leaf PTE, for each TLB   *)
(* identity and mode, under each setting of MXR and SUM and both before    *)
(* and from privileged architecture 1.11                                   *)

\* mstatus.MXR, mstatus.SUM, vsstatus.MXR and vsstatus.SUM set as given
StatusContexts ==
    {[GuestCSRWith(3, 1, 9) EXCEPT !.mstatus = [MXR |-> a, SUM |-> b],
                                   !.vsstatus = [MXR |-> c, SUM |-> d]] :
        a \in 0..1, b \in 0..1, c \in 0..1, d \in 0..1}

\* privileged architecture 1.10 and 1.11
VersionConfigs ==
    {[ConfigWith(15, TRUE, TRUE) EXCEPT !.privVersion = v] : v \in {110, 111}}

\* the TLB identities with the modes that each translates for
IdentityModes ==
    ({RISCV_TLB_HS} \X {"U", "S"})
    \cup ({RISCV_TLB_VS1, RISCV_TLB_VS2} \X {"VU", "VS"})

\* the privileges of a leaf PTE: W is never set without R
LeafPrivs == {{"R"}, {"X"}, {"R", "W"}, {"R", "X"}, {"R", "W", "X"}}

\* the entry that a walk fills from a leaf PTE with the given privileges
\* and U bit
PermEntry(activeTLB, priv, U) ==
    fillEntry([activeTLB |-> activeTLB], Leaf(HSRootPPN, priv, U, FALSE, TRUE, TRUE),
              Zero64, 12)

\* the permission check of an entry, as validateTLBEntryPriv and the table
\* walk make it
PermissionChecked(activeTLB, mode, entry, requiredPriv) ==
    /\ Idle
    /\ res' = [NoResult EXCEPT !.op = "checkEntryPermission",
                               !.inp = [NoInput EXCEPT !.mode = mode],
                               !.priv = requiredPriv,
                               !.activeTLB = activeTLB,
                               !.entry = {entry},
                               !.perm = checkEntryPermission(activeTLB, mode, entry,
                                                             requiredPriv)]
    /\ calls' = calls + 1
    /\ UNCHANGED stream
    /\ UNCHANGED <<csr, cfg, mem, tlb, dom, pasid, pmp, fenced>>

InitE == InitWith(StatusContexts, VersionConfigs)

NextE ==
    \/ \E im \in IdentityModes, priv \in LeafPrivs, U \in BOOLEAN,
          requiredPriv \in {MEM_PRIV_R, MEM_PRIV_W, MEM_PRIV_X} :
           PermissionChecked(im[1], im[2], PermEntry(im[1], priv, U), requiredPriv)
    \/ Return

SpecE == InitE /\ [][NextE]_vars

----------------------------------------------------------------------------
(* tlbLookup applied to an address, for each TLB identity: Sv39 for HS,    *)
(* Sv48 for VS1, and Sv39x4 or Sv48x4 for VS2                              *)

\* HS with Sv39, and a guest with Sv48 and either Sv39x4 or Sv48x4
WalkContexts == {CSRWith(FALSE, 3, 1), GuestCSRWith(3, 1, 8), GuestCSRWith(3, 1, 9)}

WalkConfigs == {ConfigWith(15, TRUE, TRUE), ConfigWith(15, FALSE, FALSE)}

\* 2^k as an address
Pow2(k) == Shl64(U64(1), k)

\* addresses at and around the widths of Sv39, Sv39x4, Sv48 and Sv48x4
WalkVAs ==
    {Zero64, U64(4096), VA_D, Pow2(22), Pow2(30),
     Sub64(Pow2(38), U64(1)), Pow2(38), Neg64(Pow2(38)), Neg64(Pow2(39)),
     Pow2(39), Add64(Pow2(39), Pow2(38)), Add64(Pow2(40), Pow2(39)),
     Sub64(Pow2(41), U64(1)), Pow2(41),
     Sub64(Pow2(47), U64(1)), Pow2(47), Neg64(Pow2(47)), Neg64(Pow2(48)),
     Pow2(48), Add64(Pow2(49), Pow2(48)), Add64(Pow2(48), Pow2(47)),
     Sub64(Pow2(50), U64(1)), Pow2(50), Not64(Zero64)}

\* the identities that translate in the current context, with their modes
WalkIdentityModes ==
    IF inVMode
    THEN {RISCV_TLB_VS1, RISCV_TLB_VS2} \X {"VU", "VS"}
    ELSE {RISCV_TLB_HS} \X {"U", "S"}

\* the translation context of a lookup in the given TLB
walkContext(activeTLB, mode, requiredPriv, artifactAccess) ==
    [activeTLB |-> activeTLB, mode |-> mode, requiredPriv |-> requiredPriv,
     attrsArtifact |-> artifactAccess, artifactAccess |-> artifactAccess,
     scanArtifactFirst |-> FALSE, s2Active |-> activeTLB = RISCV_TLB_VS2,
     s1VA |-> Zero64, s2Offset |-> Zero64]

\* the state that a lookup with outcome r leaves
LookedUp(cx, VA, r) ==
    /\ mem' = r.mem
    /\ res' = [NoResult EXCEPT !.op = "tlbLookup",
                               !.inp = [NoInput EXCEPT
                                           !.mode = cx.mode,
                                           !.attrsArtifact = cx.attrsArtifact,
                                           !.artifactAccess = cx.artifactAccess],
                               !.priv = cx.requiredPriv,
                               !.address = VA,
                               !.activeTLB = cx.activeTLB,
                               !.entry = r.entry,
                               !.walks = <<[tlb |-> cx.activeTLB, VA |-> VA,
                                            forVA |-> VA, error |-> r.error,
                                            exception |-> r.exception,
                                            PTEAddr |-> r.PTEAddr,
                                            reads |-> r.reads,
                                            domain |-> getPTWDomain,
                                            added |-> {},
                                            wrote |-> r.mem # mem]>>,
                               !.pre = Before]
    /\ calls' = calls + 1
    /\ UNCHANGED stream
    /\ UNCHANGED <<csr, cfg, tlb, dom, pasid, pmp, fenced>>

\* the table walk for an address, as findOrCreateTLBEntry calls it
TableWalk(activeTLB, mode, requiredPriv, artifactAccess, VA) ==
    /\ Idle
    /\ LookedUp(walkContext(activeTLB, mode, requiredPriv, artifactAccess), VA,
                tlbLookup(Machine,
                          walkContext(activeTLB, mode, requiredPriv, artifactAccess),
                          VA))

InitW == InitWith(WalkContexts, WalkConfigs)

NextW ==
    \/ \E im \in WalkIdentityModes, requiredPriv \in {MEM_PRIV_R, MEM_PRIV_W},
          artifactAccess \in BOOLEAN, VA \in WalkVAs :
           TableWalk(im[1], im[2], requiredPriv, artifactAccess, VA)
    \/ Return

SpecW == InitW /\ [][NextW]_vars

----------------------------------------------------------------------------
(* Translation in HS mode with Sv39 and with Sv32 over the same tables:    *)
(* read by Sv32, the entries 2i and 2i+1 of a table of Sv39 are the entry  *)
(* i of a table of 1024 entries of four bytes                              *)

\* Sv32 with the root table at the given page
Sv32CSRWith(ppn) ==
    [CSRWith(FALSE, 3, 1) EXCEPT !.satp.MODE = 1, !.satp.PPN = U64(ppn)]

LevelContexts ==
    {CSRWith(FALSE, 3, 1), Sv32CSRWith(HSRootPPN), Sv32CSRWith(HSRootPPN + 1)}

\* Sv32: VPN[1] = 2 selects the entry at byte 8 of the root table
VA_8M == U64(2^23)

LevelBounds ==
    [miss |-> ({Access("U", MEM_PRIV_R, FALSE, FALSE),
                Access("S", MEM_PRIV_R, FALSE, FALSE)}
               \X {VA_A, VA_EM, VA_8M, VA_G} \X {4}),
     asids |-> {3},
     vas |-> {VA_A},
     contexts |-> LevelContexts]

InitL == InitWith(LevelContexts, {ConfigWith(15, TRUE, TRUE)})

NextL == NextWith(LevelBounds)

SpecL == InitL /\ [][NextL]_vars

----------------------------------------------------------------------------
(* Accesses in HS mode (Sv39) whose bytes lie in two pages, the two pages  *)
(* being the last and the first of the address space in one case           *)

TopRootPPN == HSRootPPN + 64

\* the pages at virtual 0 as in HSTables, and a user gigapage that holds
\* the last byte of the address space
TopTables ==
    <<  <<PTEAddrOf(TopRootPPN, 0, 8), Ptr(HSRootPPN + 1)>>,
        <<PTEAddrOf(TopRootPPN, 511, 8),
          Leaf(3 * 262144, {"R", "W"}, TRUE, FALSE, TRUE, TRUE)>>  >>

TopCSRWith(satpASID) ==
    [CSRWith(FALSE, satpASID, 1) EXCEPT !.satp.PPN = U64(TopRootPPN)]

\* an access of four bytes here ends at virtual 1
VA_TOP == Sub64(Zero64, U64(2))

\* an access of four bytes here ends at the last byte of the address space
VA_TOP4 == Sub64(Zero64, U64(4))

WrapBounds ==
    [miss |-> {Access("U", MEM_PRIV_R, FALSE, FALSE),
               Access("U", MEM_PRIV_W, FALSE, FALSE)}
              \X {VA_A, VA_AB, VA_EM, VA_TOP, VA_TOP4, U64(8190)} \X {1, 4},
     asids |-> {3},
     vas |-> {VA_A, VA_TOP},
     contexts |-> {TopCSRWith(3), TopCSRWith(5)}]

InitO ==
    /\ csr = TopCSRWith(3)
    /\ cfg \in {ConfigWith(15, TRUE, TRUE), ConfigWith(15, FALSE, FALSE)}
    /\ mem = MemImage(HSTables \o VSTables \o VS2Tables \o GTables \o TopTables)
    /\ tlb = [id \in TLBIds |-> {}]
    /\ dom = {}
    /\ pasid = getSimASIDOf(csr)
    /\ pmp = NoPMP
    /\ res = NoResult
    /\ calls = 0
    /\ fenced = {}
    /\ stream = <<>>

NextO == NextWith(WrapBounds)

SpecO == InitO /\ [][NextO]_vars

----------------------------------------------------------------------------
(* handlePTWException applied to each error of a table walk, for each TLB  *)
(* identity and each type of the original access                           *)

\* the errors of pteError
PTEErrors ==
    {"PTEE_VAEXTEND", "PTEE_READ", "PTEE_WRITE", "PTEE_V0", "PTEE_R0W1",
     "PTEE_LEAF", "PTEE_ALIGN", "PTEE_PRIV", "PTEE_A0", "PTEE_D0"}

\* the state that PTE_ERROR(error) leaves in a walk of the given TLB
ExceptionRaised(activeTLB, requiredPriv, error) ==
    /\ Idle
    /\ res' = [NoResult EXCEPT
                  !.op = "handlePTWException",
                  !.priv = requiredPriv,
                  !.activeTLB = activeTLB,
                  !.walks = <<[tlb |-> activeTLB, error |-> error,
                               exception |->
                                   handlePTWException(
                                       [activeTLB |-> activeTLB,
                                        requiredPriv |-> requiredPriv], error)]>>]
    /\ calls' = calls + 1
    /\ UNCHANGED stream
    /\ UNCHANGED <<csr, cfg, mem, tlb, dom, pasid, pmp, fenced>>

InitF == InitWith({CSRWith(FALSE, 3, 1), GuestCSRWith(3, 1, 9)},
                  {ConfigWith(15, TRUE, TRUE)})

NextF ==
    \/ \E activeTLB \in TLBIds, requiredPriv \in {MEM_PRIV_R, MEM_PRIV_W, MEM_PRIV_X},
          error \in PTEErrors :
           ExceptionRaised(activeTLB, requiredPriv, error)
    \/ Return

SpecF == InitF /\ [][NextF]_vars

----------------------------------------------------------------------------
(* Properties of riscvVMMiss, stated on the state that a call leaves: res  *)
(* holds its arguments, its return value, the exceptions it delivered, the *)
(* table walks and TLB hits it made and the aliases it installed.          *)

AfterMiss == res.op = "riscvVMMiss"

\* the last byte of the footprint of the call
ResLastVA == Sub64(Add64(res.address, U64(res.bytes)), U64(1))

\* the last table walk of the call ended in a fault
LastWalkFaulted ==
    res.walks # <<>> /\ res.walks[Len(res.walks)].exception # ""

\* va lies in a range that the call installed an alias for
Aliased(va) ==
    \E i \in 1..Len(res.maps) :
        InRange64(va, res.maps[i].alias.lowVA, res.maps[i].alias.highVA)

AliasPA(a, va) == Add64(a.lowPA, Sub64(va, a.lowVA))

\* alias a is installed and selected by the current simulated ASID
AliasInForce(a) ==
    a \in dom /\ MaskSimASID(a.ASIDMask, pasid) = MaskSimASID(a.ASIDMask, a.ASID)

\* C2: every alias that mapTLBEntry installs from a single-stage entry e
\* covers a range inside [e.lowVA, e.highVA] that holds the address
\* translated, is in force while the current simulated ASID agrees with
\* e.simASID under e's ASID mask, and maps each va of its range (checked at
\* both ends and at the address translated) to va - e.lowVA + e.PA.
C2_AliasMapsEntryRange ==
    AfterMiss =>
        \A i \in 1..Len(res.maps) :
            LET a == res.maps[i].alias
                e == res.maps[i].entry1
            IN  res.maps[i].entry2 = {} =>
                    /\ Le64(e.lowVA, a.lowVA) /\ Le64(a.highVA, e.highVA)
                    /\ InRange64(res.maps[i].VA, a.lowVA, a.highVA)
                    /\ a.ASIDMask = getEntryASIDMask(e, res.inp.mode)
                    /\ a.ASID = e.simASID
                    /\ (MaskSimASID(a.ASIDMask, pasid) = MaskSimASID(a.ASIDMask, e.simASID))
                           => AliasInForce(a)
                    /\ \A va \in {a.lowVA, res.maps[i].VA, a.highVA} :
                           AliasPA(a, va) = Add64(Sub64(va, e.lowVA), e.PA)

\* an alias in force that was made from a single-stage entry whose range
\* does not start at the address translated nor at its physical address
C2_AliasFromEntryInstalled ==
    /\ AfterMiss
    /\ \E i \in 1..Len(res.maps) :
           /\ res.maps[i].entry2 = {}
           /\ AliasInForce(res.maps[i].alias)
           /\ res.maps[i].VA # res.maps[i].entry1.lowVA
           /\ res.maps[i].entry1.PA # res.maps[i].entry1.lowVA

----------------------------------------------------------------------------
(* Properties of the invalidation entry points, stated on the state that a *)
(* call leaves: res.pre holds the TLBs before it.                          *)

\* the call made was an ASID-qualified invalidation
AfterInvalidateASID ==
    res.op \in {"riscvVMInvalidateAllASID", "riscvVMInvalidateVAASID"}

\* the entries that the TLB the call was routed to held in the addressed range
Addressed ==
    {e \in res.pre.tlb[getS1TLBId] :
        \/ res.op \in {"riscvVMInvalidateAll", "riscvVMInvalidateAllASID"}
        \/ InRange64(res.address, e.lowVA, e.highVA)}

\* the entries that the call removed from the TLB it was routed to
Removed == res.pre.tlb[getS1TLBId] \ tlb[getS1TLBId]

\* the call added no entry and left the TLBs it was not routed to alone
OnlyRemoved ==
    /\ tlb[getS1TLBId] \subseteq res.pre.tlb[getS1TLBId]
    /\ \A id \in TLBIds \ {getS1TLBId} : tlb[id] = res.pre.tlb[id]

\* the ASID argument cut to the implemented width (the mask is 2^width - 1)
MaskedASID == res.ASID % (cfg.ASIDMask + 1)

\* entry e carries a VMID tag that differs from hgatp.VMID
OtherVMID(e) ==
    e.tlb \in {RISCV_TLB_VS1, RISCV_TLB_VS2} /\ e.simASID.VMID # csr.hgatp.VMID

\* the ASID that entry e is tagged with
TaggedASID(e) ==
    IF e.tlb = RISCV_TLB_HS THEN e.simASID.ASID_HS
    ELSE IF e.tlb = RISCV_TLB_VS1 THEN e.simASID.ASID_VS ELSE 0

\* C4 as stated: riscvVMInvalidateAllASID(a) removes from the routed TLB
\* exactly the non-global entries whose ASID is a masked to the implemented
\* width and whose VMID tag, if any, is hgatp.VMID.
C4_RemovesExactlyNonGlobalOfASID ==
    res.op = "riscvVMInvalidateAllASID" =>
        /\ OnlyRemoved
        /\ Removed = {e \in Addressed :
                         ~e.G /\ TaggedASID(e) = MaskedASID /\ ~OtherVMID(e)}

\* C4 amended: riscvVMInvalidateAllASID(a) removes from the routed TLB
\* exactly the entries made by artifact accesses and, of the others, those
\* whose VMID tag, if any, is hgatp.VMID and that either are non-global with
\* ASID equal to a masked to the implemented width, or exist while that
\* width is zero; every other entry is preserved.
C4_RemovesArtifactOrMatching ==
    res.op = "riscvVMInvalidateAllASID" =>
        /\ OnlyRemoved
        /\ Removed = {e \in Addressed :
                         \/ e.artifact
                         \/ /\ ~OtherVMID(e)
                            /\ \/ cfg.ASIDMask = 0
                               \/ ~e.G /\ TaggedASID(e) = MaskedASID}

\* an argument wider than the implemented ASID removed a non-global entry
\* of the masked ASID, and a global entry was preserved
C4_MaskedASIDRemovedEntry ==
    /\ res.op = "riscvVMInvalidateAllASID"
    /\ res.ASID # MaskedASID
    /\ cfg.ASIDMask # 0
    /\ \E e \in Removed : ~e.G /\ ~e.artifact /\ TaggedASID(e) = MaskedASID
    /\ \E e \in Addressed \ Removed : e.G

\* C5 as stated: no ASID-qualified invalidation, in any configuration,
\* removes an entry with G=1.
C5_GlobalNeverRemoved ==
    AfterInvalidateASID =>
        \A id \in TLBIds : \A e \in res.pre.tlb[id] : e.G => e \in tlb[id]

\* C5 amended: where the implemented ASID width is not zero, no
\* ASID-qualified invalidation removes an entry with G=1 that was not made
\* by an artifact access.
C5_GlobalKeptWhenASIDImplemented ==
    (AfterInvalidateASID /\ cfg.ASIDMask # 0) =>
        \A id \in TLBIds :
            \A e \in res.pre.tlb[id] : (e.G /\ ~e.artifact) => e \in tlb[id]

\* a global entry in the addressed range survived a call that removed
\* another entry
C5_GlobalEntrySurvived ==
    /\ AfterInvalidateASID
    /\ cfg.ASIDMask # 0
    /\ Removed # {}
    /\ \E e \in Addressed : e.G /\ ~e.artifact /\ e \in tlb[getS1TLBId]

\* C6 as stated: with an ASID width of zero every entry is global and an
\* ASID-qualified invalidation removes every entry in the addressed range
\* of the routed TLB.
C6_ZeroWidthRemovesRange ==
    cfg.ASIDMask = 0 =>
        /\ \A id \in TLBIds : \A e \in tlb[id] : e.G
        /\ AfterInvalidateASID => (OnlyRemoved /\ Removed = Addressed)

\* C6 amended: with an ASID width of zero every entry is global and an
\* ASID-qualified invalidation removes, whatever its ASID argument, every
\* entry in the addressed range of the routed TLB that was made by an
\* artifact access or whose VMID tag, if any, is hgatp.VMID; an entry tagged
\* with another VMID is preserved.
C6_ZeroWidthRemovesRangeOfVMID ==
    cfg.ASIDMask = 0 =>
        /\ \A id \in TLBIds : \A e \in tlb[id] : e.G
        /\ AfterInvalidateASID =>
               /\ OnlyRemoved
               /\ Removed = {e \in Addressed : e.artifact \/ ~OtherVMID(e)}

\* with an ASID width of zero, an entry was removed by a call whose ASID
\* argument is not the ASID that was current when the entry was made
C6_ZeroWidthRemovedOtherASID ==
    /\ cfg.ASIDMask = 0
    /\ AfterInvalidateASID
    /\ \E e \in Removed : ~e.artifact /\ TaggedASID(e) # res.ASID

\* C7 as stated: an ASID-qualified invalidation never removes a VS1 or VS2
\* entry whose VMID differs from hgatp.VMID.
C7_OtherVMIDNeverRemoved ==
    AfterInvalidateASID =>
        \A id \in TLBIds : \A e \in res.pre.tlb[id] : OtherVMID(e) => e \in tlb[id]

\* C7 amended: an ASID-qualified invalidation never removes a VS1 or VS2
\* entry whose VMID differs from hgatp.VMID, whatever its ASID and global
\* bit, unless the entry was made by an artifact access; an HS entry of the
\* addressed range is removed when it is non-global with the masked ASID, or
\* the ASID width is zero, whatever VMID was current when it was made.
C7_OtherVMIDKeptUnlessArtifact ==
    AfterInvalidateASID =>
        /\ \A id \in TLBIds :
               \A e \in res.pre.tlb[id] : (OtherVMID(e) /\ ~e.artifact) => e \in tlb[id]
        /\ getS1TLBId = RISCV_TLB_HS =>
               \A e \in Addressed :
                   (cfg.ASIDMask = 0 \/ (~e.G /\ TaggedASID(e) = MaskedASID))
                       => e \in Removed

\* a VS1 entry of the addressed range with the ASID asked for survived
\* because its VMID is not the current one
C7_OtherVMIDEntrySurvived ==
    /\ AfterInvalidateASID
    /\ getS1TLBId = RISCV_TLB_VS1
    /\ \E e \in Addressed \ Removed :
           /\ OtherVMID(e) /\ ~e.artifact
           /\ (cfg.ASIDMask = 0 \/ (~e.G /\ TaggedASID(e) = MaskedASID))

----------------------------------------------------------------------------
(* riscvVMInvalidateVA followed by riscvVMMiss: res.pre.fenced holds the   *)
(* addresses invalidated since the miss before, each with the TLB that the *)
(* invalidation was routed to; no entry was made in between, so every TLB  *)
(* hit of the call is on an entry cached before the invalidation.          *)

\* C3 as stated: the next riscvVMMiss for an address that riscvVMInvalidateVA
\* was called for uses no cached entry of any TLB to translate it.
C3_NoCachedEntryUsed ==
    AfterMiss =>
        \A f \in res.pre.fenced :
            \A k \in 1..Len(res.hits) : res.hits[k].forVA # f[2]

\* C3 amended: the next riscvVMMiss for an address that riscvVMInvalidateVA
\* was called for uses no cached entry of the TLB that the invalidation was
\* routed to, and when that TLB is the one of the current first stage the
\* call walks its tables for the address (and installs an entry or faults).
C3_NoCachedEntryOfRoutedTLBUsed ==
    AfterMiss =>
        \A f \in res.pre.fenced :
            /\ \A k \in 1..Len(res.hits) :
                   res.hits[k].forVA = f[2] => res.hits[k].tlb # f[1]
            /\ (/\ res.inp.dt = "DT_VIRT"
                /\ res.address = f[2]
                /\ getCurrentTLBId = f[1])
                   => \E k \in 1..Len(res.walks) :
                          res.walks[k].tlb = f[1] /\ res.walks[k].VA = f[2]

\* a miss for an address invalidated in VS1 walked the VS1 tables afresh
\* and used the VS2 entry cached before the invalidation
C3_WalkedAfreshWithCachedVS2 ==
    /\ AfterMiss
    /\ <<RISCV_TLB_VS1, res.address>> \in res.pre.fenced
    /\ \E k \in 1..Len(res.walks) :
           res.walks[k].tlb = RISCV_TLB_VS1 /\ res.walks[k].VA = res.address
    /\ \E k \in 1..Len(res.hits) :
           res.hits[k].tlb = RISCV_TLB_VS2 /\ res.hits[k].forVA = res.address

----------------------------------------------------------------------------
(* Faults: what a table walk and a call that end in a fault leave behind   *)

\* the same call made again in the state that the call left
Retry == riscvVMMissCall(Machine, res.inp, res.priv, res.address, res.bytes)

\* C8: a table walk that ends in a fault, of whatever kind, installs no
\* entry in the TLB being walked, and the same call made again walks the
\* same TLB for the same address again.
C8_FaultedWalkInstallsNoEntry ==
    AfterMiss =>
        \A k \in 1..Len(res.walks) :
            res.walks[k].error # "" =>
                /\ res.walks[k].exception # ""
                /\ res.walks[k].added = {}
                /\ \E j \in 1..Len(Retry.m.walks) :
                       /\ Retry.m.walks[j].tlb = res.walks[k].tlb
                       /\ Retry.m.walks[j].VA = res.walks[k].VA
                       /\ Retry.m.walks[j].error = res.walks[k].error

\* a walk that met a PTE with R=0 and W=1
C8_WalkFaultedR0W1 ==
    /\ AfterMiss
    /\ res.ret
    /\ res.walks # <<>>
    /\ res.walks[Len(res.walks)].error = "PTEE_R0W1"
    /\ tlb = res.pre.tlb

\* C9 as stated: a non-artifact riscvVMMiss that ends in a fault delivers
\* exactly one exception and installs no alias.
C9_OneExceptionNoAlias ==
    (AfterMiss /\ res.ret /\ ~res.inp.attrsArtifact) =>
        Len(res.exc) = 1 /\ res.maps = <<>>

\* C9 amended: a non-artifact riscvVMMiss that ends in a fault delivers
\* exactly one exception, for the segment of the footprint whose translation
\* failed, and installs no alias for that segment nor for any after it: each
\* alias it installed is for a segment that lies wholly below the address
\* the exception is reported for.
C9_OneExceptionAliasesBelow ==
    (AfterMiss /\ res.ret /\ ~res.inp.attrsArtifact) =>
        /\ Len(res.exc) = 1
        /\ InRange64(res.exc[1].VA, res.address, ResLastVA)
        /\ res.exc[1].exception = res.walks[Len(res.walks)].exception
        /\ \A i \in 1..Len(res.maps) :
               /\ Le64(res.address, res.maps[i].VA)
               /\ Lt64(res.maps[i].alias.highVA, res.exc[1].VA)

\* a store across two pages whose first page was aliased and whose second
\* page faulted
C9_FaultAfterFirstSegmentAliased ==
    /\ AfterMiss
    /\ res.ret
    /\ ~res.inp.attrsArtifact
    /\ Len(res.exc) = 1
    /\ res.maps # <<>>

\* C10 as stated: a riscvVMMiss that ends in a fault leaves every TLB and
\* the page table memory as they were before the call.
C10_FaultCommitsNothing ==
    (AfterMiss /\ res.ret) => (tlb = res.pre.tlb /\ mem = res.pre.mem)

\* C10 amended: the table walk that faults is the last step of the call; it
\* installs no TLB entry and writes no page table entry, also when the fault
\* is the failure of the A/D write back; a call in which that walk is the
\* only translation step adds no TLB entry and leaves the page table memory
\* as it was.
C10_FaultedWalkCommitsNothing ==
    AfterMiss =>
        /\ \A k \in 1..Len(res.walks) :
               res.walks[k].error # "" =>
                   /\ k = Len(res.walks)
                   /\ res.ret
                   /\ res.walks[k].added = {}
                   /\ ~res.walks[k].wrote
        /\ (res.ret /\ Len(res.walks) = 1 /\ res.hits = <<>>) =>
               /\ mem = res.pre.mem
               /\ \A id \in TLBIds : tlb[id] \subseteq res.pre.tlb[id]

\* the write back of the A bit failed and the call faulted
C10_WriteBackFailed ==
    /\ AfterMiss
    /\ res.ret
    /\ res.walks # <<>>
    /\ res.walks[Len(res.walks)].error = "PTEE_WRITE"
    /\ res.walks[Len(res.walks)].added = {}

----------------------------------------------------------------------------
(* C11: the footprint of an access that completes                          *)

\* the domain that the call was made for
ResDomain == <<res.inp.mode, res.inp.isCode>>

\* va lies in an alias of the domain of the call that is in force
Covered(va) ==
    \E a \in dom :
        /\ a.domain = ResDomain
        /\ AliasInForce(a)
        /\ InRange64(va, a.lowVA, a.highVA)

\* C11: after riscvVMMiss on a virtual domain has returned false (no fault),
\* every byte of [address, address+bytes-1] lies in an alias installed in that
\* domain, also when the footprint lies in two TLB entries of different sizes.
C11_FootprintCovered ==
    (AfterMiss /\ res.inp.dt = "DT_VIRT" /\ ~res.ret) =>
        \A k \in 0..(res.bytes - 1) : Covered(Add64(res.address, U64(k)))

\* a call completed whose footprint lies in a 4K entry and a 2M entry
C11_StraddledTwoSizes ==
    /\ AfterMiss /\ res.inp.dt = "DT_VIRT" /\ ~res.ret
    /\ Len(res.maps) = 2
    /\ getEntrySize(res.maps[1].entry1) = U64(2^12)
    /\ getEntrySize(res.maps[2].entry1) = Shl64(U64(1), 21)

----------------------------------------------------------------------------
(* Properties of PMP, stated on the state that a call leaves: res.pre.pmp  *)
(* holds the PMP state before it, res.pmaps what mapPMP resolved.          *)

\* riscvVMMiss was called for a physical or PMP domain, with PMP entries
AfterPMPMiss ==
    AfterMiss /\ res.inp.dt \in {"DT_PHYS", "DT_PMP"} /\ getNumPMPs # 0

\* entry i of PMP state p is active and its bounds contain address a
PMPMatches(p, i, a) ==
    /\ getPMPRegionActive(p, getPMPCFGElem(p, i), i)
    /\ InRange64(a, getPMPEntryBounds(p, i).low, getPMPEntryBounds(p, i).high)

\* the lowest index of the entries of p that match a, getNumPMPs if none
FirstMatch(p, a) ==
    IF \E i \in 0..(getNumPMPs - 1) : PMPMatches(p, i, a)
    THEN CHOOSE i \in 0..(getNumPMPs - 1) :
             PMPMatches(p, i, a) /\ \A j \in 0..(i - 1) : ~PMPMatches(p, j, a)
    ELSE getNumPMPs

\* the entry that wins the first byte of the call wins every byte of it
FootprintInWinner ==
    /\ FirstMatch(res.pre.pmp, res.address) < getNumPMPs
    /\ \A k \in 0..(res.bytes - 1) :
           FirstMatch(res.pre.pmp, Add64(res.address, U64(k)))
               = FirstMatch(res.pre.pmp, res.address)

\* the privilege that the PMP domain of a mode holds at address a: what
\* the last vmirtProtectMemory over a set, none at construction
PMPDomainPriv(p, domain, a) ==
    IF \E n \in 1..Len(p.prot) :
           p.prot[n].domain = domain /\ InRange64(a, p.prot[n].lo, p.prot[n].hi)
    THEN p.prot[CHOOSE n \in 1..Len(p.prot) :
                    /\ p.prot[n].domain = domain
                    /\ InRange64(a, p.prot[n].lo, p.prot[n].hi)
                    /\ \A n2 \in (n + 1)..Len(p.prot) :
                           ~(/\ p.prot[n2].domain = domain
                             /\ InRange64(a, p.prot[n2].lo, p.prot[n2].hi))].priv
    ELSE MEM_PRIV_NONE

\* the access is permitted: the PMP domain holds the required privilege on
\* every byte of the footprint and no PMP fault is recorded
PMPPermitted ==
    /\ res.AFErrorIn # "riscv_AFault_PMP"
    /\ \A k \in 0..(res.bytes - 1) :
           res.priv \subseteq PMPDomainPriv(pmp, getPMPDomainCorD(res.inp.mode, FALSE),
                                            Add64(res.address, U64(k)))

\* the access is an access fault with cause PMP, and no privilege is given
PMPFaulted ==
    /\ res.AFErrorIn = "riscv_AFault_PMP"
    /\ pmp = res.pre.pmp

\* the pmpcfg byte of the entry that wins the first byte of the call
WinnerCFG == getPMPCFGElem(res.pre.pmp, FirstMatch(res.pre.pmp, res.address))

\* C12: an M-mode access whose footprint lies in the winning PMP region R is
\* permitted whatever R.priv is if R.L=0; if R.L=1 it is permitted only when
\* R.priv holds every required bit, and is an access fault with cause PMP
\* otherwise.
C12_MachineModeHonoursLockedOnly ==
    (AfterPMPMiss /\ res.inp.mode = "M" /\ FootprintInWinner) =>
        /\ WinnerCFG.L = 0 => PMPPermitted
        /\ WinnerCFG.L = 1 =>
               IF res.priv \subseteq privOfBits(WinnerCFG.priv)
               THEN PMPPermitted ELSE PMPFaulted

\* an M-mode write to 0x1000 in the locked NAPOT region [0x1000, 0x1FFF] with
\* priv R was an access fault with cause PMP
C12_LockedReadOnlyRefusedWrite ==
    /\ AfterPMPMiss /\ res.inp.mode = "M" /\ FootprintInWinner
    /\ res.priv = MEM_PRIV_W /\ res.address = U64(4096)
    /\ WinnerCFG = [priv |-> 1, mode |-> PMPM_NAPOT, L |-> 1]
    /\ getPMPEntryBounds(res.pre.pmp, FirstMatch(res.pre.pmp, res.address))
           = [low |-> U64(4096), high |-> U64(8191)]
    /\ PMPFaulted

\* an M-mode write in a region with priv R that is not locked was permitted
C12_UnlockedReadOnlyAllowedWrite ==
    /\ AfterPMPMiss /\ res.inp.mode = "M" /\ FootprintInWinner
    /\ res.priv = MEM_PRIV_W
    /\ WinnerCFG.L = 0 /\ WinnerCFG.priv = 1
    /\ PMPPermitted

----------------------------------------------------------------------------
(* C13: the scan of mapPMP against first-match semantics                   *)

\* the privilege that first-match semantics gives mode at address a: that
\* of the lowest-index matching entry (every privilege in mode M unless the
\* entry is locked), and without a match every privilege in mode M and none
\* in the other modes
FirstMatchPriv(p, mode, a) ==
    IF FirstMatch(p, a) < getNumPMPs
    THEN IF mode = "M" /\ getPMPCFGElem(p, FirstMatch(p, a)).L = 0
         THEN MEM_PRIV_RWX
         ELSE privOfBits(getPMPCFGElem(p, FirstMatch(p, a)).priv)
    ELSE IF mode = "M" THEN MEM_PRIV_RWX ELSE MEM_PRIV_NONE

\* the addresses of [lo, hi] at which the lowest-index matching entry can
\* change: the ends of the range and the ends of every region inside it
MatchChanges(p, lo, hi) ==
    {lo, hi}
    \cup {getPMPEntryBounds(p, i).low : i \in 0..(getNumPMPs - 1)}
    \cup {getPMPEntryBounds(p, i).high : i \in 0..(getNumPMPs - 1)}

\* C13: the triple (lowMap, highMap, priv) that mapPMP computes by scanning
\* the entries from the highest index down is that of first-match semantics:
\* priv is the privilege of the lowest-index active region that contains the
\* address (the default of the mode if there is none), and every address of
\* [lowMap, highMap] has the same lowest-index matching region as the
\* address accessed.
C13_ScanIsFirstMatch ==
    AfterPMPMiss =>
        /\ res.pmaps[1].priv = FirstMatchPriv(res.pre.pmp, res.inp.mode, res.address)
        /\ InRange64(res.address, res.pmaps[1].lowMap, res.pmaps[1].highMap)
        /\ \A a \in MatchChanges(res.pre.pmp, res.pmaps[1].lowMap,
                                 res.pmaps[1].highMap) :
               InRange64(a, res.pmaps[1].lowMap, res.pmaps[1].highMap) =>
                   FirstMatch(res.pre.pmp, a) = FirstMatch(res.pre.pmp, res.address)

\* two regions contained the address accessed, with different privileges
C13_TwoRegionsMatched ==
    /\ AfterPMPMiss
    /\ \E i, j \in 0..(getNumPMPs - 1) :
           /\ i < j
           /\ PMPMatches(res.pre.pmp, i, res.address)
           /\ PMPMatches(res.pre.pmp, j, res.address)
           /\ getPMPCFGElem(res.pre.pmp, i).priv # getPMPCFGElem(res.pre.pmp, j).priv

\* the bounds of the winning region were cut by a region of lower index
C13_BoundsCutByLowerIndex ==
    /\ AfterPMPMiss
    /\ FirstMatch(res.pre.pmp, res.address) < getNumPMPs
    /\ res.pmaps[1].lowMap
           # getPMPEntryBounds(res.pre.pmp, FirstMatch(res.pre.pmp, res.address)).low

----------------------------------------------------------------------------
(* C14: what mapPMP grants                                                 *)

\* the last byte of the footprint lies beyond the bounds resolved
BeyondBounds == Lt64(res.pmaps[1].highMap, ResLastVA)

\* C14: mapPMP grants no privilege and records the access fault cause PMP
\* whenever the bounds resolved do not contain the whole footprint
\* [lowPA, highPA] or the privilege of the region lacks a required bit; in
\* every other case it sets the privilege of the region on the bounds
\* resolved, and records no PMP fault.
C14_GrantsOnlyWithinBounds ==
    AfterPMPMiss =>
        IF \/ BeyondBounds
           \/ Lt64(res.address, res.pmaps[1].lowMap)
           \/ ~(res.priv \subseteq res.pmaps[1].priv)
        THEN PMPFaulted
        ELSE /\ res.AFErrorIn = "riscv_AFault_Bus"
             /\ Len(pmp.prot) > Len(res.pre.pmp.prot)
             /\ pmp.prot[Len(res.pre.pmp.prot) + 1]
                    = [domain |-> getPMPDomainCorD(res.inp.mode, FALSE),
                       lo     |-> res.pmaps[1].lowMap,
                       hi     |-> res.pmaps[1].highMap,
                       priv   |-> res.pmaps[1].priv]
             /\ \A a \in {res.pmaps[1].lowMap, res.pmaps[1].highMap,
                          res.address, ResLastVA} :
                    PMPDomainPriv(pmp, getPMPDomainCorD(res.inp.mode, FALSE), a)
                        = res.pmaps[1].priv

\* an access with the privilege required was refused because its footprint
\* ends beyond the region
C14_RefusedBeyondBounds ==
    /\ AfterPMPMiss
    /\ BeyondBounds
    /\ res.priv \subseteq res.pmaps[1].priv
    /\ PMPFaulted

----------------------------------------------------------------------------
(* C15: the lock of a pmpcfg byte                                          *)

\* entry i was locked when the call was made
LockedBefore(i) == getPMPCFGElem(res.pre.pmp, i).L = 1

\* C15: once the pmpcfg byte of an entry has L=1, no riscvVMWritePMPCFG that
\* is not an artifact access changes any bit of the byte, nor does any other
\* call but riscvVMResetPMP, which clears it (the lock does not bind a write
\* that is an artifact access, which the claim leaves aside).
C15_LockedByteKeptUntilReset ==
    \A i \in 0..(getNumPMPs - 1) :
        (res.op # "" /\ LockedBefore(i)) =>
            IF res.op = "riscvVMResetPMP" THEN pmp.cfg[i] = 0
            ELSE IF res.op = "riscvVMWritePMPCFG" /\ res.inp.artifactAccess
            THEN TRUE
            ELSE pmp.cfg[i] = res.pre.pmp.cfg[i]

\* a riscvVMWritePMPCFG that is not an artifact access wrote another value
\* to the byte of a locked entry
C15_WriteToLockedByte ==
    /\ res.op = "riscvVMWritePMPCFG" /\ ~res.inp.artifactAccess
    /\ \E i \in 0..(getNumPMPs - 1) :
           /\ LockedBefore(i)
           /\ BitAnd(byteOf(res.newValue, i), WM64_pmpcfg[i + 1], 8)
                  # res.pre.pmp.cfg[i]

\* riscvVMResetPMP cleared the byte of a locked entry
C15_ResetClearedLock ==
    res.op = "riscvVMResetPMP" /\ \E i \in 0..(getNumPMPs - 1) : LockedBefore(i)

----------------------------------------------------------------------------
(* C16: the lock of a pmpaddr register                                     *)

\* entry i was a locked TOR entry when the call was made
LockedTORBefore(i) ==
    /\ i < getNumPMPs
    /\ LockedBefore(i)
    /\ getPMPCFGElem(res.pre.pmp, i).mode = PMPM_TOR

\* a call that the locks bind: any but riscvVMResetPMP and the writes that
\* are artifact accesses
BoundByLock ==
    /\ res.op # "" /\ res.op # "riscvVMResetPMP"
    /\ ~res.inp.artifactAccess

\* C16: a riscvVMWritePMPAddr(i, v) that is not an artifact access changes
\* pmpaddr[i] only if entry i is not locked and entry i+1 is not a locked TOR
\* entry, and changes no other register; so the bounds of a locked region
\* are the same after every call but riscvVMResetPMP.
C16_LockedAddrKeptUntilReset ==
    /\ (res.op = "riscvVMWritePMPAddr" /\ ~res.inp.artifactAccess) =>
           /\ pmp.cfg = res.pre.pmp.cfg
           /\ \A i \in 0..(getNumPMPs - 1) :
                  pmp.addr[i] # res.pre.pmp.addr[i] =>
                      /\ i = res.index
                      /\ ~LockedBefore(i)
                      /\ ~LockedTORBefore(i + 1)
    /\ BoundByLock =>
           \A i \in 0..(getNumPMPs - 1) :
               (LockedBefore(i) /\ getPMPCFGElem(res.pre.pmp, i).mode # PMPM_OFF) =>
                   getPMPEntryBounds(pmp, i) = getPMPEntryBounds(res.pre.pmp, i)

\* another value was written to the pmpaddr of an entry that is not locked
\* and that the locked TOR entry after it takes its lower bound from
C16_WriteBelowLockedTOR ==
    /\ res.op = "riscvVMWritePMPAddr" /\ ~res.inp.artifactAccess
    /\ res.index < getNumPMPs
    /\ ~LockedBefore(res.index)
    /\ LockedTORBefore(res.index + 1)
    /\ maskPMPAddr(res.newValue) # res.pre.pmp.addr[res.index]

\* another value was written to the pmpaddr of a locked entry
C16_WriteToLockedAddr ==
    /\ res.op = "riscvVMWritePMPAddr" /\ ~res.inp.artifactAccess
    /\ res.index < getNumPMPs
    /\ LockedBefore(res.index)
    /\ maskPMPAddr(res.newValue) # res.pre.pmp.addr[res.index]

----------------------------------------------------------------------------
(* C17: NA4 with a PMP grain                                               *)

\* byte i of the value written to pmpcfg, with its writable bits only
WrittenCFG(i) ==
    pmpcfgElem(BitAnd(byteOf(res.newValue, i), WM64_pmpcfg[i + 1], 8))

\* the write of pmpcfg asked for mode NA4 in entry i, which it may write
AskedNA4(i) ==
    /\ res.op = "riscvVMWritePMPCFG" /\ validPMPCFG(res.index)
    /\ WrittenCFG(i).mode = PMPM_NA4
    /\ ~pmpLocked(res.pre.pmp, res.inp.artifactAccess, i)

\* C17: with a PMP grain G >= 1, in every state reached from reset no entry
\* has mode NA4: a write of pmpcfg that asks for NA4 in an entry keeps the
\* mode that the entry had, while priv and L take the value written.
C17_NoNA4WithGrain ==
    cfg.PMP_grain >= 1 =>
        \A i \in 0..(getNumPMPs - 1) :
            /\ getPMPCFGElem(pmp, i).mode # PMPM_NA4
            /\ AskedNA4(i) =>
                   getPMPCFGElem(pmp, i)
                       = [priv |-> WrittenCFG(i).priv,
                          mode |-> getPMPCFGElem(res.pre.pmp, i).mode,
                          L    |-> WrittenCFG(i).L]

\* with a grain, NA4 was asked for in an entry of mode NAPOT, with another
\* priv
C17_AskedNA4WithGrain ==
    /\ cfg.PMP_grain >= 1
    /\ \E i \in 0..(getNumPMPs - 1) :
           /\ AskedNA4(i)
           /\ getPMPCFGElem(res.pre.pmp, i).mode = PMPM_NAPOT
           /\ getPMPCFGElem(res.pre.pmp, i).priv # WrittenCFG(i).priv

----------------------------------------------------------------------------
(* C18: the bounds of a NAPOT region                                       *)

RECURSIVE TrailingOnes(_)

\* the number of one bits of a below its lowest zero bit
TrailingOnes(a) ==
    IF Bits(a, 0, 1) = 1 THEN 1 + TrailingOnes(Shr64(a, 1)) ELSE 0

\* C18: for a NAPOT entry whose pmpaddr, as riscvVMReadPMPAddr returns it,
\* has exactly k trailing one bits, getPMPEntryBounds returns a naturally
\* aligned range of 2^(k+3) bytes that contains pmpaddr<<2; pmpaddr =
\* 0x8000_0000|0x1F gives [0x2_0000_0000, 0x2_0000_00FF].
C18_NAPOTBoundsFromTrailingOnes ==
    \A i \in 0..(getNumPMPs - 1) :
        getPMPCFGElem(pmp, i).mode = PMPM_NAPOT =>
            /\ getPMPEntryBounds(pmp, i).low
                   = AlignDown64(Shl64(riscvVMReadPMPAddr(pmp, i), 2),
                                 TrailingOnes(riscvVMReadPMPAddr(pmp, i)) + 3)
            /\ getPMPEntryBounds(pmp, i).high
                   = Add64(getPMPEntryBounds(pmp, i).low,
                           Sub64(Shl64(U64(1),
                                       TrailingOnes(riscvVMReadPMPAddr(pmp, i)) + 3),
                                 U64(1)))
            /\ InRange64(Shl64(riscvVMReadPMPAddr(pmp, i), 2),
                         getPMPEntryBounds(pmp, i).low,
                         getPMPEntryBounds(pmp, i).high)
            /\ riscvVMReadPMPAddr(pmp, i) = PA_NAPOT256 =>
                   getPMPEntryBounds(pmp, i)
                       = [low  |-> Shl64(U64(1), 33),
                          high |-> Add64(Shl64(U64(1), 33), U64(255))]

\* a NAPOT entry has pmpaddr 0x8000_001F, five trailing one bits
C18_NAPOT256Programmed ==
    \E i \in 0..(getNumPMPs - 1) :
        /\ getPMPCFGElem(pmp, i).mode = PMPM_NAPOT
        /\ riscvVMReadPMPAddr(pmp, i) = PA_NAPOT256
        /\ TrailingOnes(riscvVMReadPMPAddr(pmp, i)) = 5

\* with a grain of two bits, the pmpaddr held for a NAPOT entry has fewer
\* trailing one bits than the value that riscvVMReadPMPAddr returns
C18_HeldAddrDiffersFromRead ==
    \E i \in 0..(getNumPMPs - 1) :
        /\ getPMPCFGElem(pmp, i).mode = PMPM_NAPOT
        /\ riscvVMReadPMPAddr(pmp, i) = PA_NAPOT256
        /\ TrailingOnes(pmp.addr[i]) = 0

----------------------------------------------------------------------------
(* C19: the A and D bits of what is cached and mapped                      *)

\* entry e of a stage 1 TLB is what alias a was installed from
Backs(e, a) ==
    /\ e.tlb = (IF modeIsVirtual(a.domain[1]) THEN RISCV_TLB_VS1 ELSE RISCV_TLB_HS)
    /\ getModeMask(a.domain[1]) \subseteq e.mapped
    /\ e.simASID = a.ASID
    /\ Le64(e.lowVA, a.highVA) /\ Le64(a.lowVA, e.highVA)

\* C19: in every reachable state each entry of a TLB has A=1, and every
\* alias that gives write privilege is backed only by entries with D=1, of
\* stage 1 and, with two stages, of stage 2: an alias installed from an
\* entry with D=0 does not give write privilege.
C19_CachedAccessedMappedDirty ==
    /\ \A id \in TLBIds : \A e \in tlb[id] : e.A
    /\ \A a \in dom :
           "W" \in a.priv =>
               \A e \in tlb[RISCV_TLB_HS] \cup tlb[RISCV_TLB_VS1] :
                   Backs(e, a) => e.D
    /\ AfterMiss =>
           \A i \in 1..Len(res.maps) :
               "W" \in res.maps[i].alias.priv =>
                   /\ res.maps[i].entry1.D
                   /\ \A e2 \in res.maps[i].entry2 : e2.D

\* an alias without write privilege was installed from a stage 1 entry that
\* allows writes and a stage 2 entry with D=0
C19_CleanStage2MappedReadOnly ==
    /\ AfterMiss
    /\ \E i \in 1..Len(res.maps) :
           /\ "W" \in res.maps[i].entry1.priv
           /\ \E e2 \in res.maps[i].entry2 : "W" \in e2.priv /\ ~e2.D
           /\ "W" \notin res.maps[i].alias.priv

\* an alias with write privilege was installed from entries of both stages
C19_DirtyBothStagesMappedWrite ==
    /\ AfterMiss
    /\ \E i \in 1..Len(res.maps) :
           /\ res.maps[i].entry2 # {}
           /\ "W" \in res.maps[i].alias.priv

----------------------------------------------------------------------------
(* C20: the write back of the D bit                                        *)

\* the call was a write whose first table walk ended, without a fault, at
\* a PTE with D=0, with hardware update of D
WroteToCleanPage ==
    /\ AfterMiss /\ res.inp.dt = "DT_VIRT"
    /\ "W" \in res.priv /\ ~res.inp.artifactAccess
    /\ updatePTED
    /\ res.walks # <<>>
    /\ res.walks[1].error = ""
    /\ res.walks[1].PTEAddr \in DOMAIN res.pre.mem
    /\ ~res.pre.mem[res.walks[1].PTEAddr].D

\* an entry for the first byte of the call was cached when it was made
CachedBefore ==
    \E e \in res.pre.tlb[RISCV_TLB_HS] :
        InRange64(res.address, e.lowVA, e.highVA) /\ e.simASID = pasid

\* C20: a write to a page whose PTE has D=0, with hardware update of D,
\* causes exactly one write back of the PTE (which then has A=1 and D=1),
\* whether the access misses the TLB, hits an entry cached with D=0, which
\* is deleted and walked for again, or finds A=0 as well.
C20_CleanPageWrittenBackOnce ==
    WroteToCleanPage =>
        /\ Cardinality({k \in 1..Len(res.walks) : res.walks[k].wrote}) = 1
        /\ res.walks[1].wrote
        /\ {a \in DOMAIN mem : a \notin DOMAIN res.pre.mem \/ mem[a] # res.pre.mem[a]}
               = {res.walks[1].PTEAddr}
        /\ mem[res.walks[1].PTEAddr]
               = [res.pre.mem[res.walks[1].PTEAddr] EXCEPT !.A = TRUE, !.D = TRUE]
        /\ \A e \in res.pre.tlb[RISCV_TLB_HS] :
               (InRange64(res.address, e.lowVA, e.highVA) /\ e.simASID = pasid
                    /\ ~e.D) => e \notin tlb[RISCV_TLB_HS]

\* the write hit an entry cached with D=0
C20_HitCleanEntry ==
    /\ WroteToCleanPage
    /\ \E e \in res.pre.tlb[RISCV_TLB_HS] :
           InRange64(res.address, e.lowVA, e.highVA) /\ e.simASID = pasid /\ ~e.D

\* the write missed the TLB, and the PTE had A=1
C20_MissedCleanPage ==
    /\ WroteToCleanPage /\ ~CachedBefore
    /\ res.pre.mem[res.walks[1].PTEAddr].A

\* the write found A=0 as well
C20_FoundNotAccessed ==
    WroteToCleanPage /\ ~res.pre.mem[res.walks[1].PTEAddr].A

----------------------------------------------------------------------------
(* C21, C22: checkEntryPermission, stated on the state that a check of an  *)
(* entry leaves: res.activeTLB, res.inp.mode, res.entry and res.priv hold  *)
(* its arguments, res.perm the privilege it returned.                      *)

AfterPermission == res.op = "checkEntryPermission"

\* the entry checked
Checked == CHOOSE e \in res.entry : TRUE

\* the mode that the check is made for: U for every stage 2 entry
EffectiveMode ==
    IF res.activeTLB = RISCV_TLB_VS2 THEN "U"
    ELSE IF res.inp.mode \in {"U", "VU"} THEN "U" ELSE "S"

\* the SUM bit of the identity that the check is made for
ActiveSUM ==
    IF res.activeTLB = RISCV_TLB_VS1 THEN csr.vsstatus.SUM = 1
    ELSE csr.mstatus.SUM = 1

\* the MXR bit of the identity that the check is made for
ActiveMXR ==
    IF res.activeTLB = RISCV_TLB_VS1
    THEN csr.mstatus.MXR = 1 \/ csr.vsstatus.MXR = 1
    ELSE csr.mstatus.MXR = 1

\* the U bit of the entry lets the effective mode in
ModeAdmitted ==
    IF EffectiveMode = "U" THEN Checked.U ELSE (Checked.U => ActiveSUM)

\* the privilege bit asked for is one the entry gives the effective mode
BitGiven ==
    /\ \/ res.priv \subseteq Checked.priv
       \/ res.priv = MEM_PRIV_R /\ "X" \in Checked.priv /\ ActiveMXR
    /\ ~(/\ EffectiveMode = "S" /\ Checked.U /\ cfg.privVersion >= 111
         /\ res.priv = MEM_PRIV_X)

\* C21: when the effective mode is U (and for every stage 2 entry, whatever
\* the mode) access is denied unless the entry has U=1; when it is S and the
\* entry has U=1 access is denied unless SUM=1, and from privileged
\* architecture 1.11 execute is denied even with SUM=1; the access succeeds
\* iff the bits asked for are among the privileges that result, and then
\* those privileges are returned.
C21_PermissionByModeAndU ==
    AfterPermission =>
        /\ (EffectiveMode = "U" /\ ~Checked.U) => res.perm = MEM_PRIV_NONE
        /\ (EffectiveMode = "S" /\ Checked.U /\ ~ActiveSUM) => res.perm = MEM_PRIV_NONE
        /\ (/\ EffectiveMode = "S" /\ Checked.U /\ cfg.privVersion >= 111
            /\ res.priv = MEM_PRIV_X) => res.perm = MEM_PRIV_NONE
        /\ res.perm # MEM_PRIV_NONE <=> (ModeAdmitted /\ BitGiven)
        /\ res.perm # MEM_PRIV_NONE => res.priv \subseteq res.perm

\* from 1.11, a fetch in mode S from an executable user page was denied
\* although SUM is set
C21_SupervisorFetchOfUserPageDenied ==
    /\ AfterPermission
    /\ res.activeTLB = RISCV_TLB_HS /\ res.inp.mode = "S"
    /\ Checked.U /\ ActiveSUM /\ cfg.privVersion >= 111
    /\ res.priv = MEM_PRIV_X /\ "X" \in Checked.priv
    /\ res.perm = MEM_PRIV_NONE

\* a stage 2 entry with U=0 was denied to mode VS
C21_Stage2CheckedAsUser ==
    /\ AfterPermission
    /\ res.activeTLB = RISCV_TLB_VS2 /\ res.inp.mode = "VS"
    /\ ~Checked.U /\ res.priv \subseteq Checked.priv
    /\ res.perm = MEM_PRIV_NONE

\* C22: checkEntryPermission gives read privilege on an entry that is
\* executable and not readable iff the MXR bit of the identity is set
\* (mstatus.MXR for HS and VS2, mstatus.MXR or vsstatus.MXR for VS1) and the
\* mode is admitted; with MXR clear a read of an execute-only page is denied.
C22_ReadOfExecutableNeedsMXR ==
    (AfterPermission /\ "X" \in Checked.priv /\ "R" \notin Checked.priv) =>
        /\ "R" \in res.perm => ActiveMXR
        /\ (res.priv = MEM_PRIV_R /\ ~ActiveMXR) => res.perm = MEM_PRIV_NONE
        /\ (res.priv = MEM_PRIV_R /\ ActiveMXR /\ ModeAdmitted) => "R" \in res.perm

\* a read of an execute-only page was granted to VS1 with vsstatus.MXR set
\* and mstatus.MXR clear
C22_ReadGrantedByVSMXR ==
    /\ AfterPermission
    /\ res.activeTLB = RISCV_TLB_VS1
    /\ Checked.priv = MEM_PRIV_X /\ res.priv = MEM_PRIV_R
    /\ csr.mstatus.MXR = 0 /\ csr.vsstatus.MXR = 1
    /\ "R" \in res.perm

\* a read of an execute-only page was denied to VS2 with vsstatus.MXR set
\* and mstatus.MXR clear
C22_ReadDeniedToStage2 ==
    /\ AfterPermission
    /\ res.activeTLB = RISCV_TLB_VS2
    /\ Checked.priv = MEM_PRIV_X /\ Checked.U /\ res.priv = MEM_PRIV_R
    /\ csr.mstatus.MXR = 0 /\ csr.vsstatus.MXR = 1
    /\ res.perm = MEM_PRIV_NONE

----------------------------------------------------------------------------
(* C23: the check of the upper bits of a virtual address, stated on the    *)
(* state that a table walk leaves: res.address holds the address,          *)
(* res.walks[1] the error, the exception and the addresses of the page     *)
(* table entries read.                                                     *)

AfterWalk == res.op = "tlbLookup"

\* the width of the virtual address of the first stage walked: 39 bits for
\* Sv39, 48 bits for Sv48
Stage1Width ==
    IF (IF res.activeTLB = RISCV_TLB_VS1 THEN csr.vsatp.MODE ELSE csr.satp.MODE) = 8
    THEN 39 ELSE 48

\* the bits of a from bit n - 1 up are all equal
SignExtended(a, n) ==
    \/ Shr64(a, n - 1) = Zero64
    \/ Shr64(a, n - 1) = Sub64(Pow2(65 - n), U64(1))

PageFaults == {"LoadPageFault", "StoreAMOPageFault", "InstructionPageFault"}

\* C23: an Sv39 (resp. Sv48) walk is rejected with a VAEXTEND page fault,
\* before any page table entry is read, iff VA bits 63..39 (resp. 63..48)
\* are not all equal to bit 38 (resp. 47): 0x0000_003F_FFFF_FFFF and
\* 0xFFFF_FFC0_0000_0000 pass the check and 0x0000_0040_0000_0000 faults.
C23_VAExtendIffNotSignExtended ==
    (AfterWalk /\ res.activeTLB \in {RISCV_TLB_HS, RISCV_TLB_VS1}) =>
        /\ res.walks[1].error = "PTEE_VAEXTEND"
               <=> ~SignExtended(res.address, Stage1Width)
        /\ res.walks[1].error = "PTEE_VAEXTEND" =>
               /\ res.walks[1].reads = <<>>
               /\ res.walks[1].exception \in PageFaults
               /\ mem = res.pre.mem
        /\ res.walks[1].error # "PTEE_VAEXTEND" => res.walks[1].reads # <<>>
        /\ Stage1Width = 39 =>
               /\ res.address \in {Sub64(Pow2(38), U64(1)), Neg64(Pow2(38))}
                      => res.walks[1].error # "PTEE_VAEXTEND"
               /\ res.address = Pow2(38) => res.walks[1].error = "PTEE_VAEXTEND"

\* the Sv39 walk of 0x0000_0040_0000_0000 faulted and read nothing
C23_Sv39AboveTopFaulted ==
    /\ AfterWalk /\ res.activeTLB = RISCV_TLB_HS /\ Stage1Width = 39
    /\ res.address = Pow2(38)
    /\ res.walks[1].error = "PTEE_VAEXTEND"
    /\ res.walks[1].reads = <<>>

\* the Sv39 walk of 0xFFFF_FFC0_0000_0000 gave an entry
C23_Sv39TopNegativeTranslated ==
    /\ AfterWalk /\ res.activeTLB = RISCV_TLB_HS /\ Stage1Width = 39
    /\ res.address = Neg64(Pow2(38))
    /\ res.walks[1].error = "" /\ res.entry # {}

\* the Sv48 walk of 0x0000_8000_0000_0000 faulted and read nothing
C23_Sv48AboveTopFaulted ==
    /\ AfterWalk /\ res.activeTLB = RISCV_TLB_VS1 /\ Stage1Width = 48
    /\ res.address = Pow2(47)
    /\ res.walks[1].error = "PTEE_VAEXTEND"
    /\ res.walks[1].reads = <<>>

----------------------------------------------------------------------------
(* C30: the stage 2 walks Sv39x4 and Sv48x4                                *)

\* the width of the base mode of stage 2: 39 bits for Sv39x4, 48 for Sv48x4
Stage2BaseWidth == IF csr.hgatp.MODE = 8 THEN 39 ELSE 48

\* a walk of stage 2 was made
AfterStage2Walk == AfterWalk /\ res.activeTLB = RISCV_TLB_VS2

\* the two bits of the address above the width of the base mode
ExtraBits == Bits(res.address, Stage2BaseWidth, 2)

\* the address of the root table entry for the address walked: the root
\* table is at hgatp.PPN*4096 + (the two extra bits)*4096
Stage2RootEntry ==
    Add64(Add64(Shl64(csr.hgatp.PPN, 12), U64(ExtraBits * 4096)),
          U64(Bits(res.address, Stage2BaseWidth - 9, 9) * 8))

\* what every walk of stage 2 that passes the check of the address does:
\* it starts at the root table of the extra bits, and the entry it gives
\* contains the address walked
Stage2WalkFromRoot ==
    /\ res.walks[1].error # "PTEE_VAEXTEND" =>
           /\ res.walks[1].reads # <<>>
           /\ res.walks[1].reads[1] = Stage2RootEntry
    /\ res.walks[1].error = "PTEE_VAEXTEND" => res.walks[1].reads = <<>>
    /\ \A e \in res.entry : InRange64(res.address, e.lowVA, e.highVA)

\* C30 as stated: for the stage 2 Sv39x4 and Sv48x4 walks, every guest
\* physical address below 2^41 (resp. 2^50) is walked without a VAEXTEND
\* fault, from the root table at hgatp.PPN*4096 + (the two extra bits)*4096,
\* and on success the entry contains the address; only addresses with higher
\* bits set fault with VAEXTEND.
C30_EveryAddressInWidthWalked ==
    AfterStage2Walk =>
        /\ res.walks[1].error = "PTEE_VAEXTEND"
               <=> Shr64(res.address, Stage2BaseWidth + 2) # Zero64
        /\ Stage2WalkFromRoot

\* C30 as the code has it: a guest physical address faults with VAEXTEND iff
\* it has a bit set from bit 41 (resp. 50) up, or has the top bit of the
\* base mode, bit 38 (resp. 47), set; every other address is walked from
\* the root table at hgatp.PPN*4096 + (the two extra bits)*4096, and on
\* success the entry contains the address.
C30_TopBitOfBaseFaults ==
    AfterStage2Walk =>
        /\ res.walks[1].error = "PTEE_VAEXTEND"
               <=> \/ Shr64(res.address, Stage2BaseWidth + 2) # Zero64
                   \/ Bits(res.address, Stage2BaseWidth - 1, 1) = 1
        /\ Stage2WalkFromRoot

\* the Sv39x4 walk of guest physical 0x40_0000_0000, below 2^41, faulted
\* with VAEXTEND
C30_Sv39x4Bit38Faulted ==
    /\ AfterStage2Walk /\ csr.hgatp.MODE = 8
    /\ res.address = Pow2(38)
    /\ res.walks[1].error = "PTEE_VAEXTEND"
    /\ res.walks[1].exception = "LoadGuestPageFault"

\* the Sv39x4 walk of guest physical 2^39 gave an entry from the second
\* page of the root table
C30_Sv39x4ExtraBitsWalked ==
    /\ AfterStage2Walk /\ csr.hgatp.MODE = 8
    /\ res.address = Pow2(39)
    /\ res.walks[1].error = ""
    /\ res.walks[1].reads = <<PTEAddrOf(GRootPPN + 1, 0, 8)>>
    /\ \E e \in res.entry : e.lowVA = Pow2(39)

----------------------------------------------------------------------------
(* C24: the alias of a two stage translation                               *)

\* the smaller of two 64-bit values
Min64(x, y) == IF Lt64(x, y) THEN x ELSE y

\* the stage 2 entry of the alias that the call installed as its i-th
Entry2(i) == CHOOSE e \in res.maps[i].entry2 : TRUE

\* the guest physical address that stage 1 gives the address translated
MapGPA(i) ==
    Add64(res.maps[i].VA, getEntryVAtoPA(res.maps[i].entry1))

\* the alias installed as the i-th covers [va - lo, va + hi] and no more,
\* and maps each address x of it (checked at both ends and at va) to
\* x + (e1.pa - e1.lo) + (e2.pa - e2.lo)
AliasSpans(i, lo, hi) ==
    /\ res.maps[i].alias.lowVA = Sub64(res.maps[i].VA, lo)
    /\ res.maps[i].alias.highVA = Add64(res.maps[i].VA, hi)
    /\ InRange64(res.maps[i].VA, res.maps[i].alias.lowVA, res.maps[i].alias.highVA)
    /\ \A x \in {res.maps[i].alias.lowVA, res.maps[i].VA, res.maps[i].alias.highVA} :
           AliasPA(res.maps[i].alias, x)
               = Add64(Add64(x, getEntryVAtoPA(res.maps[i].entry1)),
                       getEntryVAtoPA(Entry2(i)))

\* stage 1 [0..0xFFF] -> GPA 0x1000 and stage 2 [0..0x1FFFFF] -> PA 0x200000
\* give [0, 0xFFF] -> PA 0x201000
NarrowingExample(i) ==
    (/\ res.maps[i].entry1.lowVA = Zero64 /\ res.maps[i].entry1.highVA = U64(4095)
     /\ res.maps[i].entry1.PA = U64(4096)
     /\ Entry2(i).lowVA = Zero64 /\ Entry2(i).highVA = U64(2^21 - 1)
     /\ Entry2(i).PA = U64(2^21))
        => /\ res.maps[i].alias.lowVA = Zero64
           /\ res.maps[i].alias.highVA = U64(4095)
           /\ res.maps[i].alias.lowPA = U64(2^21 + 4096)

\* C24 as stated: for a two stage translation of va with guest physical
\* address gpa, stage 1 entry e1 and stage 2 entry e2, the alias installed
\* covers exactly [max(e1.lo, va-(gpa-e2.lo)), min(e1.hi, va+(e2.hi-gpa))],
\* contains va, and maps each address x of it to
\* x + (e1.pa-e1.lo) + (e2.pa-e2.lo).  (The bounds are stated as distances
\* from va, none of which is negative.)
C24_AliasIsIntersection ==
    AfterMiss =>
        \A i \in 1..Len(res.maps) :
            res.maps[i].entry2 # {} =>
                /\ AliasSpans(i,
                       Min64(Sub64(res.maps[i].VA, res.maps[i].entry1.lowVA),
                             Sub64(MapGPA(i), Entry2(i).lowVA)),
                       Min64(Sub64(res.maps[i].entry1.highVA, res.maps[i].VA),
                             Sub64(Entry2(i).highVA, MapGPA(i))))
                /\ NarrowingExample(i)

\* the range that stage 1 contributes: that of e1, or the 4G aligned block
\* that holds va when e1 is larger than 4G
Stage1Low(i) ==
    IF Lt64(Pow2(32), getEntrySize(res.maps[i].entry1))
    THEN AlignDown64(res.maps[i].VA, 32)
    ELSE res.maps[i].entry1.lowVA

Stage1High(i) ==
    IF Lt64(Pow2(32), getEntrySize(res.maps[i].entry1))
    THEN Add64(AlignDown64(res.maps[i].VA, 32), Sub64(Pow2(32), U64(1)))
    ELSE res.maps[i].entry1.highVA

\* C24 amended: the alias installed covers exactly
\* [max(lo1, va-(gpa-e2.lo)), min(hi1, va+(e2.hi-gpa))], where [lo1, hi1] is
\* [e1.lo, e1.hi], or the 4G aligned block that holds va when e1 is larger
\* than 4G; it contains va and maps each address x of it to
\* x + (e1.pa-e1.lo) + (e2.pa-e2.lo); stage 1 [0..0xFFF] -> GPA 0x1000 and
\* stage 2 [0..0x1FFFFF] -> PA 0x200000 give [0, 0xFFF] -> PA 0x201000.
C24_AliasIsIntersectionWithin4G ==
    AfterMiss =>
        \A i \in 1..Len(res.maps) :
            res.maps[i].entry2 # {} =>
                /\ AliasSpans(i,
                       Min64(Sub64(res.maps[i].VA, Stage1Low(i)),
                             Sub64(MapGPA(i), Entry2(i).lowVA)),
                       Min64(Sub64(Stage1High(i), res.maps[i].VA),
                             Sub64(Entry2(i).highVA, MapGPA(i))))
                /\ NarrowingExample(i)

\* the alias [0, 0xFFF] -> PA 0x201000 was installed from the 4K page at
\* virtual 0 and the 2M page at guest physical 0
C24_ExampleInstalled ==
    /\ AfterMiss
    /\ \E i \in 1..Len(res.maps) :
           /\ res.maps[i].entry2 # {}
           /\ res.maps[i].entry1.PA = U64(4096)
           /\ Entry2(i).highVA = U64(2^21 - 1)
           /\ res.maps[i].alias.lowVA = Zero64
           /\ res.maps[i].alias.highVA = U64(4095)
           /\ res.maps[i].alias.lowPA = U64(2^21 + 4096)

\* an alias was narrowed by stage 2: a 1G page of stage 1 over a 2M page
C24_NarrowedByStage2 ==
    /\ AfterMiss
    /\ \E i \in 1..Len(res.maps) :
           /\ res.maps[i].entry2 # {}
           /\ getEntrySize(res.maps[i].entry1) = Pow2(30)
           /\ getEntrySize(Entry2(i)) = Pow2(21)
           /\ res.maps[i].alias.highVA # res.maps[i].entry1.highVA
           /\ Sub64(res.maps[i].alias.highVA, res.maps[i].alias.lowVA)
                  = U64(2^21 - 1)

\* an alias of 4G was installed from 512G pages of both stages
C24_CappedAt4G ==
    /\ AfterMiss
    /\ \E i \in 1..Len(res.maps) :
           /\ res.maps[i].entry2 # {}
           /\ getEntrySize(res.maps[i].entry1) = Pow2(39)
           /\ getEntrySize(Entry2(i)) = Pow2(39)
           /\ res.maps[i].alias.lowVA = AlignDown64(res.maps[i].VA, 32)
           /\ res.maps[i].alias.lowVA # res.maps[i].entry1.lowVA

----------------------------------------------------------------------------
(* C25: the round trip of save and restore                                 *)

AfterSave == res.op = "riscvVMSave" /\ res.phase = "SRT_END_CORE"

AfterRestore == res.op = "riscvVMRestore" /\ res.phase = "SRT_END_CORE"

\* the entries that the n-th run of entry elements of a save context holds
RECURSIVE StreamEntries(_, _)
StreamEntries(cxt, n) ==
    IF cxt = <<>> THEN {}
    ELSE IF Head(cxt).name = RISCV_TLB_END
    THEN IF n = 1 THEN {} ELSE StreamEntries(Tail(cxt), n - 1)
    ELSE IF n = 1 THEN Head(cxt).data \cup StreamEntries(Tail(cxt), n)
    ELSE StreamEntries(Tail(cxt), n)

\* the entries of a TLB that no artifact access made, as not mapped
NonArtifactUnmapped(T) ==
    {[e EXCEPT !.mapped = {}] : e \in {x \in T : ~x.artifact}}

\* C25: a save writes, for each TLB, exactly its non-artifact entries of
\* that time with mapped cleared and every other field (lowVA, highVA, PA,
\* priv, U, G, A, D, simASID) as it is; a restore from what was saved, after
\* whatever invalidation, leaves in each TLB exactly the entries saved for
\* it, none of them mapped and none an artifact entry: every entry live
\* just before the restore is dropped, and with it every alias.
C25_RestoreYieldsSavedEntries ==
    /\ AfterSave =>
           \A n \in 1..Len(TLBOrder) :
               StreamEntries(stream, n) = NonArtifactUnmapped(res.pre.tlb[TLBOrder[n]])
    /\ AfterRestore =>
           /\ \A n \in 1..Len(TLBOrder) :
                  /\ tlb[TLBOrder[n]] = StreamEntries(stream, n)
                  /\ \A e \in tlb[TLBOrder[n]] : e.mapped = {} /\ ~e.artifact
           /\ dom = {}

\* a restore replaced a mapped entry by the same entry not mapped
C25_MappedEntryRestoredUnmapped ==
    /\ AfterRestore
    /\ \E id \in TLBIds : \E e \in res.pre.tlb[id] :
           /\ e.mapped # {}
           /\ e \notin tlb[id]
           /\ [e EXCEPT !.mapped = {}] \in tlb[id]

\* a restore dropped an entry made after the save
C25_LiveEntryDropped ==
    /\ AfterRestore
    /\ \E id \in TLBIds : res.pre.tlb[id] # {} /\ tlb[id] = {}

\* a save left out an artifact entry
C25_ArtifactEntryNotSaved ==
    /\ AfterSave
    /\ \E n \in 1..Len(TLBOrder) :
           /\ \E e \in res.pre.tlb[TLBOrder[n]] : e.artifact
           /\ StreamEntries(stream, n) = {}

----------------------------------------------------------------------------
(* C26: artifact accesses                                                  *)

\* C26 as stated: a riscvVMMiss for an artifact access, one whose attrs say
\* so or one made while riscv->artifactAccess is set, delivers no exception
\* and leaves page table memory as it was.
C26_ArtifactAccessSilent ==
    (AfterMiss /\ (res.inp.attrsArtifact \/ res.inp.artifactAccess)) =>
        /\ res.exc = <<>>
        /\ mem = res.pre.mem
        /\ \A i \in 1..Len(res.walks) : ~res.walks[i].wrote

\* what each of the two marks does: no exception is delivered for an access
\* whose attrs say artifact, and no PTE is written while
\* riscv->artifactAccess is set
C26_EachMarkSuppressesItsOwn ==
    AfterMiss =>
        /\ res.inp.attrsArtifact => res.exc = <<>>
        /\ res.inp.artifactAccess =>
               /\ mem = res.pre.mem
               /\ \A i \in 1..Len(res.walks) : ~res.walks[i].wrote

\* an access whose attrs say artifact, made while riscv->artifactAccess is
\* clear, set A or D of a PTE
C26_ArtifactAttrsWrotePTE ==
    /\ AfterMiss
    /\ res.inp.attrsArtifact
    /\ ~res.inp.artifactAccess
    /\ mem # res.pre.mem

\* a failing access whose attrs say artifact returned true without exception
C26_ArtifactFailureSilent ==
    /\ AfterMiss
    /\ res.inp.attrsArtifact
    /\ res.ret
    /\ res.exc = <<>>

----------------------------------------------------------------------------
(* C28: the value that riscvVMWritePMPAddr returns                         *)

AfterWritePMPAddr == res.op = "riscvVMWritePMPAddr" /\ validPMPAddr(res.index)

\* C28 as stated: riscvVMWritePMPAddr(i, v) returns, for every valid index
\* i, the value that riscvVMReadPMPAddr(i) returns after the write, whether
\* the write changed the register, was blocked by a lock, or wrote the
\* value already held.
C28_WriteReturnsEffectiveValue ==
    AfterWritePMPAddr => res.result = riscvVMReadPMPAddr(pmp, res.index)

\* what the code returns: the effective value when the masked value written
\* differs from the one held (whether or not a lock blocks the write), and
\* zero when it is the value already held
C28_WriteOfHeldValueReturnsZero ==
    AfterWritePMPAddr =>
        res.result = IF res.pre.pmp.addr[res.index] # maskPMPAddr(res.newValue)
                     THEN riscvVMReadPMPAddr(pmp, res.index)
                     ELSE Zero64

\* a write of the value already held returned zero though the register
\* reads as not zero
C28_HeldValueWrittenAgain ==
    /\ AfterWritePMPAddr
    /\ res.pre.pmp.addr[res.index] = maskPMPAddr(res.newValue)
    /\ riscvVMReadPMPAddr(pmp, res.index) # Zero64
    /\ res.result = Zero64

\* a write blocked by a lock returned the effective value
C28_LockedWriteReturnedValue ==
    /\ AfterWritePMPAddr
    /\ res.pre.pmp.addr[res.index] # maskPMPAddr(res.newValue)
    /\ pmp = res.pre.pmp
    /\ res.result = riscvVMReadPMPAddr(pmp, res.index)
    /\ res.result # Zero64

----------------------------------------------------------------------------
(* C27: artifact entries and range scans                                   *)

AfterInvalidate ==
    res.op \in {"riscvVMInvalidateAll", "riscvVMInvalidateAllASID",
                "riscvVMInvalidateVA", "riscvVMInvalidateVAASID"}

\* the range that the invalidation made scanned
ScannedByInvalidate(e) ==
    \/ res.op \in {"riscvVMInvalidateAll", "riscvVMInvalidateAllASID"}
    \/ InRange64(res.address, e.lowVA, e.highVA)

\* the aliases in the range and with the ASID of the entry e of TLB id
AliasesOf(id, e) ==
    {a \in dom :
        /\ a.domain[1] \in e.mapped
        /\ a.domain[1] \in (IF id = RISCV_TLB_HS THEN {"U", "S"} ELSE {"VU", "VS"})
        /\ InRange64(a.lowVA, e.lowVA, e.highVA)
        /\ InRange64(a.highVA, e.lowVA, e.highVA)
        /\ a.ASIDMask = getEntryASIDMask(e, a.domain[1])
        /\ MaskSimASID(a.ASIDMask, a.ASID) = MaskSimASID(a.ASIDMask, e.simASID)}

\* the aliases that the call installed
Installed == {res.maps[j].alias : j \in 1..Len(res.maps)}

\* C27: the entry that a lookup is served from is never one that an
\* artifact access created, nor is the entry that an alias is installed
\* from for an access made while riscv->artifactAccess is clear; the scan
\* of an invalidation deletes every artifact entry that overlaps its
\* range, whatever its ASID, with its aliases; and so does the scan of a
\* lookup that ends in a table walk, for the address looked up (the only
\* aliases then left in the range of the entry are those that the call
\* installed after the walk).
C27_ScanNeverReturnsArtifactEntry ==
    /\ AfterMiss =>
           /\ \A i \in 1..Len(res.hits) : ~res.hits[i].entry.artifact
           /\ \A i \in 1..Len(res.maps) :
                  res.maps[i].entry1.artifact => res.inp.artifactAccess
           /\ ~res.inp.artifactAccess =>
                  \A i \in 1..Len(res.walks) :
                      \A e \in res.pre.tlb[res.walks[i].tlb] :
                          (e.artifact /\ InRange64(res.walks[i].VA, e.lowVA, e.highVA))
                              => e \notin tlb[res.walks[i].tlb]
                                 /\ AliasesOf(res.walks[i].tlb, e) \subseteq Installed
    /\ AfterInvalidate =>
           \A e \in res.pre.tlb[getS1TLBId] :
               (e.artifact /\ ScannedByInvalidate(e))
                   => e \notin tlb[getS1TLBId] /\ AliasesOf(getS1TLBId, e) = {}

\* the lookup of an access that is no artifact access met an artifact
\* entry that had an alias: the entry was deleted and the tables walked
C27_ArtifactEntryDeletedByLookup ==
    /\ AfterMiss
    /\ ~res.inp.artifactAccess
    /\ \E i \in 1..Len(res.walks) :
           \E e \in res.pre.tlb[res.walks[i].tlb] :
               /\ e.artifact
               /\ e.mapped # {}
               /\ InRange64(res.walks[i].VA, e.lowVA, e.highVA)
               /\ e \notin tlb[res.walks[i].tlb]

\* an invalidation by an ASID deleted an artifact entry
C27_ArtifactEntryDeletedByInvalidate ==
    /\ res.op = "riscvVMInvalidateAllASID"
    /\ \E e \in res.pre.tlb[getS1TLBId] : e.artifact /\ e \notin tlb[getS1TLBId]

----------------------------------------------------------------------------
(* C29: the order of the two stages and of the PTE write back              *)

\* stage 1 of the translation that the j-th walk belongs to ended with an
\* entry, found in the TLB or by a walk made before the j-th
Stage1Done(j) ==
    \/ \E i \in 1..(j - 1) :
           /\ res.walks[i].tlb = RISCV_TLB_VS1
           /\ res.walks[i].forVA = res.walks[j].forVA
           /\ res.walks[i].error = ""
    \/ \E h \in 1..Len(res.hits) :
           /\ res.hits[h].tlb = RISCV_TLB_VS1
           /\ res.hits[h].VA = res.walks[j].forVA

\* C29: the PTEs of stage 2 are read, within one translation, only once
\* stage 1 has ended with an entry, and no walk of stage 1 for that
\* translation follows; and a walk that fails, at the permission check or
\* anywhere else, leaves the PTE in memory as it was.
C29_Stage1FirstAndWriteAfterCheck ==
    AfterMiss =>
        /\ \A j \in 1..Len(res.walks) :
               res.walks[j].tlb = RISCV_TLB_VS2 =>
                   /\ Stage1Done(j)
                   /\ \A i \in (j + 1)..Len(res.walks) :
                          ~(/\ res.walks[i].tlb = RISCV_TLB_VS1
                            /\ res.walks[i].forVA = res.walks[j].forVA)
        /\ \A i \in 1..Len(res.walks) :
               res.walks[i].error # "" => ~res.walks[i].wrote
        /\ (\E i \in 1..Len(res.walks) : res.walks[i].error = "PTEE_PRIV")
               => mem[res.walks[Len(res.walks)].PTEAddr]
                      = res.pre.mem[res.walks[Len(res.walks)].PTEAddr]

\* one call walked stage 1 and then stage 2 for a page, and for the next
\* page a write failed the permission check of stage 1 on a PTE whose D
\* bit is clear, with the update of D enabled
C29_TwoStagesThenPermissionFailure ==
    /\ AfterMiss
    /\ updatePTED
    /\ "W" \in res.priv
    /\ \E i, j, k \in 1..Len(res.walks) :
           /\ i < j /\ j < k
           /\ res.walks[i].tlb = RISCV_TLB_VS1
           /\ res.walks[j].tlb = RISCV_TLB_VS2
           /\ res.walks[i].forVA = res.walks[j].forVA
           /\ Len(res.walks[j].reads) > 0
           /\ res.walks[k].error = "PTEE_PRIV"
           /\ ~mem[res.walks[k].PTEAddr].D

----------------------------------------------------------------------------
(* C31: the entry that findTLBEntry returns                                *)

\* the ASID that tags the entry e of TLB id, and the ASID of that TLB now
TagASID(id, e) ==
    IF id = RISCV_TLB_HS THEN e.simASID.ASID_HS ELSE e.simASID.ASID_VS

CurrentASID(id) == IF id = RISCV_TLB_HS THEN csr.satp.ASID ELSE csr.vsatp.ASID

----------------------------------------------------------------------------
(* C32: a hit on an entry that does not grant the privilege required       *)

\* before the call the TLB of the i-th walk held an entry that findTLBEntry
\* returns for the address walked and that checkEntryPermission refuses
DeniedHit(i) ==
    \E e \in res.pre.tlb[res.walks[i].tlb] :
        /\ ~e.artifact
        /\ InRange64(res.walks[i].VA, e.lowVA, e.highVA)
        /\ matchVMID(getActiveVMID(res.walks[i].tlb), e)
        /\ matchASID(getActiveASID(res.walks[i].tlb), e)
        /\ checkEntryPermission(res.walks[i].tlb, res.inp.mode, e, res.priv)
               = MEM_PRIV_NONE

\* the page fault of an access: the guest page fault when raised for VS2
PageFaultOf(priv, id) ==
    handlePTWException([activeTLB |-> id, requiredPriv |-> priv], "PTEE_PRIV")

\* the call installed no alias for the address of the i-th walk and added
\* no entry that covers the address walked to the TLB walked
NothingInstalledFor(i) ==
    /\ \A j \in 1..Len(res.maps) : res.maps[j].VA # res.walks[i].forVA
    /\ {e \in tlb[res.walks[i].tlb] :
            InRange64(res.walks[i].VA, e.lowVA, e.highVA)}
           \subseteq res.pre.tlb[res.walks[i].tlb]

C32_ArtifactHitRefusedSilently ==
    /\ AfterMiss
    /\ res.inp.attrsArtifact
    /\ \E i \in 1..Len(res.walks) : DeniedHit(i)
    /\ res.exc = <<>>

----------------------------------------------------------------------------
(* C33: the mapped mask of an entry and the aliases in the domains         *)

\* the modes whose virtual domains hold the aliases of the entries of a TLB
ModesOfTLB(id) == IF id = RISCV_TLB_HS THEN {"U", "S"} ELSE {"VU", "VS"}

\* the aliases that mapTLBEntry installs in the domains of mode with e as
\* entry1: inside the range of e, tagged as its simulated ASID is under a
\* mask that has the bits of its ASID mask, and, when no stage 2 entry was
\* combined, with its offset from virtual to physical
AliasesFrom(d, id, e, mode) ==
    {a \in d :
        /\ a.domain[1] = mode
        /\ InRange64(a.lowVA, e.lowVA, e.highVA)
        /\ InRange64(a.highVA, e.lowVA, e.highVA)
        /\ getEntryASIDMask(e, mode) \subseteq a.ASIDMask
        /\ MaskSimASID(a.ASIDMask, a.ASID) = MaskSimASID(a.ASIDMask, e.simASID)
        /\ id = RISCV_TLB_VS2 => a.ASID.S1 = 0
        /\ (id # RISCV_TLB_VS1 \/ a.ASID.S2 = 0)
               => Sub64(a.lowPA, a.lowVA) = getEntryVAtoPA(e)}

AliasInstalledFrom(id, e, mode) == AliasesFrom(dom, id, e, mode)

----------------------------------------------------------------------------
(* C34: the aliases of an entry that is deleted                            *)

\* what tells one entry of a TLB from another, whatever is mapped from it
EntryKey(e) ==
    <<e.tlb, e.lowVA, e.highVA, e.PA, e.priv, e.U, e.G, e.A, e.D, e.artifact,
      getEntryASID(e), getEntryVMID(e)>>

\* the entries of TLB id that the call deleted
DeletedEntries(id) ==
    {e \in res.pre.tlb[id] : \A f \in tlb[id] : EntryKey(f) # EntryKey(e)}

\* an alias of a guest made with both stages active
Combined(a) ==
    a.domain[1] \in {"VU", "VS"} /\ a.ASID.S1 = 1 /\ a.ASID.S2 = 1

\* alias a is what mapTLBEntry makes of stage 1 entry e1 and stage 2 entry e2
ComposedFrom(a, e1, e2) ==
    /\ Combined(a)
    /\ MaskSimASID(a.ASIDMask, a.ASID) = MaskSimASID(a.ASIDMask, e1.simASID)
    /\ InRange64(a.lowVA, e1.lowVA, e1.highVA)
    /\ InRange64(a.highVA, e1.lowVA, e1.highVA)
    /\ InRange64(Add64(a.lowVA, getEntryVAtoPA(e1)), e2.lowVA, e2.highVA)
    /\ InRange64(Add64(a.highVA, getEntryVAtoPA(e1)), e2.lowVA, e2.highVA)
    /\ Sub64(a.lowPA, a.lowVA) = Add64(getEntryVAtoPA(e1), getEntryVAtoPA(e2))

\* the aliases that were in the domains before the call and were derived
\* from entry e of TLB id, as the entry mapped or as its stage 2 entry
DerivedBefore(id, e) ==
    UNION {AliasesFrom(res.pre.dom, id, e, mode) : mode \in ModesOfTLB(id)}
    \cup (IF id = RISCV_TLB_VS2
          THEN {a \in res.pre.dom :
                   \E e1 \in res.pre.tlb[RISCV_TLB_VS1] : ComposedFrom(a, e1, e)}
          ELSE {})

\* the aliases derived from a deleted entry that the call left in place
Outlived(id, e) == (DerivedBefore(id, e) \cap dom) \ Installed

\* C34 as stated: after every call, no alias that was derived from an entry
\* that the call deleted is still in a domain (unless the call installed it
\* anew), the combined alias made with a deleted stage 2 entry included.
C34_NoAliasOutlivesEntry ==
    res.op # "" =>
        \A id \in TLBIds : \A e \in DeletedEntries(id) : Outlived(id, e) = {}

\* what holds: the aliases of a deleted entry that was the entry mapped
\* (entry1 of mapTLBEntry) are removed
C34_AliasesOfMappedEntryRemoved ==
    res.op # "" =>
        \A id \in TLBIds : \A e \in DeletedEntries(id) :
            \A mode \in ModesOfTLB(id) :
                (AliasesFrom(res.pre.dom, id, e, mode) \cap dom) \subseteq Installed

\* a write found the stage 2 entry cached with D clear and deleted it; the
\* walk that followed failed, and the combined alias made with the entry
\* is still in the domain
C34_CombinedAliasOutlivesStage2Entry ==
    /\ AfterMiss
    /\ "W" \in res.priv
    /\ res.exc # <<>>
    /\ \E e \in DeletedEntries(RISCV_TLB_VS2) :
           ~e.D /\ Outlived(RISCV_TLB_VS2, e) # {}

\* a deleted stage 1 entry had been mapped and its aliases are gone
C34_MappedStage1EntryDeleted ==
    /\ res.op # ""
    /\ \E e \in DeletedEntries(RISCV_TLB_VS1) :
           /\ e.mapped # {}
           /\ DerivedBefore(RISCV_TLB_VS1, e) # {}
           /\ DerivedBefore(RISCV_TLB_VS1, e) \cap dom = {}

----------------------------------------------------------------------------
(* C35: an entry looked up again after the simulated ASID changed          *)

\* the fields of the simulated ASID that tag the alias of entry e in mode m:
\* MXR_HS always; the ASID unless e is global; VMID, MXR_VS, S1 and S2 in a
\* virtual mode; the SUM bit of the mode for a user page, not of stage 2,
\* in supervisor mode
TagFields(e, m) ==
    {"MXR_HS"}
    \cup (IF e.G THEN {}
          ELSE IF m \in {"VU", "VS"} THEN {"ASID_VS"} ELSE {"ASID_HS"})
    \cup (IF m \in {"VU", "VS"} THEN {"VMID", "MXR_VS", "S1", "S2"} ELSE {})
    \cup (IF e.U /\ e.tlb # RISCV_TLB_VS2 /\ m \in {"S", "VS"}
          THEN (IF m = "VS" THEN {"SUM_VS"} ELSE {"SUM_HS"})
          ELSE {})

\* the simulated ASID differs from the one of e in a field that tags its
\* alias in mode m
TagChanged(e, m) == \E f \in TagFields(e, m) : e.simASID[f] # getSimASID[f]

\* the entry e of TLB id as the call left it
AsLeft(id, e) ==
    {f \in tlb[id] :
        /\ f.lowVA = e.lowVA /\ f.highVA = e.highVA /\ f.PA = e.PA
        /\ f.D = e.D /\ f.artifact = e.artifact
        /\ f.simASID = getSimASID}

\* the call mapped entry e in mode m after the lookup
MappedAnew(e, m) ==
    \E j \in 1..Len(res.maps) :
        /\ res.maps[j].alias.domain[1] = m
        /\ res.maps[j].entry1.tlb = e.tlb
        /\ res.maps[j].entry1.lowVA = e.lowVA
        /\ res.maps[j].entry1.highVA = e.highVA

\* alias a is in the domain as it was, or the call installed in its place
\* an alias with the same tag
KeptOrRenewed(a) ==
    \/ a \in dom
    \/ \E b \in Installed :
           /\ b.domain = a.domain
           /\ b.lowVA = a.lowVA /\ b.highVA = a.highVA /\ b.lowPA = a.lowPA
           /\ b.ASIDMask = a.ASIDMask
           /\ MaskSimASID(a.ASIDMask, b.ASID) = MaskSimASID(a.ASIDMask, a.ASID)

\* C35: when a call finds an entry that is mapped in mode m and whose
\* simulated ASID is not the current one, the aliases of the entry in the
\* domains of m are removed and its mapped bit of m cleared (until the call
\* maps the entry anew in m) if the change is in a field that tags the
\* alias in m; otherwise the mapped bit of m stays set and the aliases stay
\* (the alias of the mode of the access is installed again with the same
\* tag).
C35_UnmappedIffTagChanged ==
    AfterMiss =>
        \A h \in 1..Len(res.hits) :
            \A m \in ModesOfTLB(res.hits[h].tlb) :
                getBaseMode(m) \in res.hits[h].entry.mapped =>
                    IF TagChanged(res.hits[h].entry, m)
                    THEN /\ AliasesFrom(res.pre.dom, res.hits[h].tlb,
                                        res.hits[h].entry, m) \cap dom = {}
                         /\ \A f \in AsLeft(res.hits[h].tlb, res.hits[h].entry) :
                                getBaseMode(m) \in f.mapped
                                    <=> MappedAnew(res.hits[h].entry, m)
                    ELSE /\ \A a \in AliasesFrom(res.pre.dom, res.hits[h].tlb,
                                                 res.hits[h].entry, m) :
                                KeptOrRenewed(a)
                         /\ \A f \in AsLeft(res.hits[h].tlb, res.hits[h].entry) :
                                getBaseMode(m) \in f.mapped

\* the entry of a user page mapped in supervisor mode was looked up in user
\* mode after SUM changed: its alias in supervisor mode is gone
C35_SupervisorAliasRemovedOnSUM ==
    /\ AfterMiss
    /\ res.inp.mode = "U"
    /\ \E h \in 1..Len(res.hits) :
           /\ "S" \in res.hits[h].entry.mapped
           /\ res.hits[h].entry.simASID.SUM_HS # getSimASID.SUM_HS
           /\ AliasesFrom(res.pre.dom, RISCV_TLB_HS, res.hits[h].entry, "S") # {}
           /\ \A a \in dom : a.domain[1] # "S"

\* an entry mapped in a mode other than that of the access was looked up
\* after a change outside its tag in that mode: the alias is in place
C35_AliasKeptOutsideTag ==
    /\ AfterMiss
    /\ \E h \in 1..Len(res.hits) : \E m \in ModesOfTLB(res.hits[h].tlb) :
           /\ m # res.inp.mode
           /\ getBaseMode(m) \in res.hits[h].entry.mapped
           /\ res.hits[h].entry.simASID # getSimASID
           /\ ~TagChanged(res.hits[h].entry, m)
           /\ AliasesFrom(res.pre.dom, res.hits[h].tlb, res.hits[h].entry, m)
                  \cap dom # {}

----------------------------------------------------------------------------
(* C36: the privileges cached in the PMP domains and the PMP registers     *)

\* what the PMP registers of p grant mode at address a: the privilege of
\* the first entry that matches (every privilege for mode M unless that
\* entry is locked); with no match every privilege for mode M, none for
\* mode S
PMPGranted(p, mode, a) ==
    IF FirstMatch(p, a) = getNumPMPs
    THEN (IF mode = "M" THEN MEM_PRIV_RWX ELSE MEM_PRIV_NONE)
    ELSE IF mode = "M" /\ getPMPCFGElem(p, FirstMatch(p, a)).L = 0
    THEN MEM_PRIV_RWX
    ELSE privOfBits(getPMPCFGElem(p, FirstMatch(p, a)).priv)

\* the addresses looked at
PMPProbes ==
    {U64(0), U64(4096), U64(4099), U64(6144), U64(6147), U64(7168), U64(8188)}

\* C36 as stated: in every reachable state the privilege that the PMP
\* domain of mode S or of mode M holds at an address is within what the
\* PMP registers grant the mode at that address.
C36_CachedWithinGranted ==
    getNumPMPs # 0 =>
        \A mode \in {"S", "M"} : \A a \in PMPProbes :
            PMPDomainPriv(pmp, getPMPDomainCorD(mode, FALSE), a)
                \subseteq PMPGranted(pmp, mode, a)

\* what holds: a write of pmpaddr[i] or of the pmpcfg byte of entry i that
\* takes effect leaves no privilege in the PMP domain of mode S inside the
\* bounds that entry i had and inside those that it gets
C36_WrittenEntryInvalidated ==
    (res.op = "riscvVMWritePMPAddr" /\ pmp.addr # res.pre.pmp.addr) =>
        \A a \in PMPProbes :
            (\/ PMPMatches(res.pre.pmp, res.index, a)
             \/ PMPMatches(pmp, res.index, a))
                => PMPDomainPriv(pmp, getPMPDomainCorD("S", FALSE), a)
                       = MEM_PRIV_NONE

\* pmpaddr0 was written while entry 1 is a TOR region: an address that the
\* region held before and does not hold now keeps its privilege in the PMP
\* domain of mode S
C36_TORLowerBoundMoved ==
    /\ res.op = "riscvVMWritePMPAddr"
    /\ res.index = 0
    /\ getPMPCFGElem(pmp, 1).mode = PMPM_TOR
    /\ \E a \in PMPProbes :
           /\ PMPMatches(res.pre.pmp, 1, a)
           /\ ~PMPMatches(pmp, 1, a)
           /\ PMPGranted(pmp, "S", a) = MEM_PRIV_NONE
           /\ PMPDomainPriv(pmp, getPMPDomainCorD("S", FALSE), a) # MEM_PRIV_NONE

----------------------------------------------------------------------------
(* C37: the domain of the accesses of a page table walk                    *)

\* the walks of the call that read or wrote a page table entry
AccessingWalks ==
    {i \in 1..Len(res.walks) : res.walks[i].reads # <<>> \/ res.walks[i].wrote}

\* C37 as stated: every read and every write of a page table entry is made
\* in the PMP domain of mode M.
C37_WalkThroughMachineDomain ==
    AfterMiss =>
        \A i \in AccessingWalks :
            res.walks[i].domain = getPMPDomainCorD("M", FALSE)

\* C37 amended: every read and every write of a page table entry is made
\* in the PMP data domain of mode S, whatever the mode and the privilege of
\* the access that caused the walk.
C37_WalkThroughSupervisorDomain ==
    AfterMiss =>
        \A i \in AccessingWalks :
            /\ res.walks[i].domain = getPMPDomainCorD("S", FALSE)
            /\ res.walks[i].domain # getPMPDomainCorD("M", FALSE)

\* a walk for a fetch in user mode read three page table entries and wrote
\* one back
C37_FetchWalkReadAndWrote ==
    /\ AfterMiss
    /\ res.inp.mode = "U"
    /\ res.priv = MEM_PRIV_X
    /\ \E i \in AccessingWalks :
           Len(res.walks[i].reads) = 3 /\ res.walks[i].wrote

----------------------------------------------------------------------------
(* C38: the exception of a failed table walk                               *)

\* the access fault of an access type
AccessFaultTable ==
    [t \in {MEM_PRIV_R, MEM_PRIV_W, MEM_PRIV_X} |->
        IF t = MEM_PRIV_R THEN "LoadAccessFault"
        ELSE IF t = MEM_PRIV_W THEN "StoreAMOAccessFault"
        ELSE "InstructionAccessFault"]

\* the page fault of an access type, and its guest page fault
PageFaultTable ==
    [t \in {MEM_PRIV_R, MEM_PRIV_W, MEM_PRIV_X} |->
        IF t = MEM_PRIV_R THEN <<"LoadPageFault", "LoadGuestPageFault">>
        ELSE IF t = MEM_PRIV_W THEN <<"StoreAMOPageFault", "StoreAMOGuestPageFault">>
        ELSE <<"InstructionPageFault", "InstructionGuestPageFault">>]

\* the walks that failed, of a riscvVMMiss or of a tlbLookup
FailedWalks ==
    IF res.op \in {"riscvVMMiss", "tlbLookup", "handlePTWException"}
    THEN {i \in 1..Len(res.walks) : res.walks[i].error # ""}
    ELSE {}

\* C38: a walk that failed to read or to write a PTE gives the access
\* fault of the type of the original access; a walk that failed in any
\* other way gives the page fault of that type, the guest page fault if
\* and only if the TLB walked is VS2.
C38_ExceptionOfFailedWalk ==
    \A i \in FailedWalks :
        LET w == res.walks[i]
        IN  IF w.error \in {"PTEE_READ", "PTEE_WRITE"}
            THEN w.exception = AccessFaultTable[res.priv]
            ELSE w.exception =
                    PageFaultTable[res.priv][IF w.tlb = RISCV_TLB_VS2 THEN 2 ELSE 1]

\* a store failed to read a PTE in stage 2: an access fault of the store,
\* not a guest page fault
C38_StoreReadFailureStage2 ==
    \E i \in FailedWalks :
        /\ res.walks[i].tlb = RISCV_TLB_VS2
        /\ res.walks[i].error = "PTEE_READ"
        /\ res.priv = MEM_PRIV_W
        /\ res.walks[i].exception = "StoreAMOAccessFault"

----------------------------------------------------------------------------
(* C39: the entries of the TLBs are aligned pages                          *)

\* the entry spans exactly 2^k bytes, and its lowVA and PA are multiples
\* of 2^k
PageOf(e, k) ==
    /\ Add64(Sub64(e.highVA, e.lowVA), U64(1)) = Shl64(U64(1), k)
    /\ AlignDown64(e.lowVA, k) = e.lowVA
    /\ AlignDown64(e.PA, k) = e.PA

\* the mode of the address translation that fills a TLB
ModeOfTLB(id) ==
    IF id = RISCV_TLB_VS2 THEN csr.hgatp.MODE
    ELSE IF id = RISCV_TLB_VS1 THEN csr.vsatp.MODE
    ELSE csr.satp.MODE

\* the bits of a VPN and the highest level of a translation mode
VPNShiftOf(m) == IF m = 1 THEN 10 ELSE 9

TopLevelOf(m) == IF m = 1 THEN 1 ELSE IF m = 8 THEN 2 ELSE 3

\* the level of the leaf of a walk: it read one entry at each level from
\* the highest down to the leaf
LeafLevel(w) == TopLevelOf(ModeOfTLB(w.tlb)) + 1 - Len(w.reads)

\* C39: every entry of a TLB has lowVA <= highVA and spans the page of a
\* level, with lowVA and PA aligned to the size of that page; an entry that
\* a walk added spans the page of the level where the walk found the leaf.
C39_EntriesAreAlignedPages ==
    /\ \A id \in TLBIds : \A e \in tlb[id] :
           /\ Le64(e.lowVA, e.highVA)
           /\ \E level \in 0..3 :
                  PageOf(e, 12 + 9 * level) \/ PageOf(e, 12 + 10 * level)
    /\ AfterMiss =>
           \A i \in 1..Len(res.walks) : \A e \in res.walks[i].added :
               /\ LeafLevel(res.walks[i]) \in 0..TopLevelOf(ModeOfTLB(res.walks[i].tlb))
               /\ PageOf(e, 12 + VPNShiftOf(ModeOfTLB(res.walks[i].tlb))
                                   * LeafLevel(res.walks[i]))

\* a walk of Sv32 found its leaf at level 1 and added a page of 4M to a
\* TLB that holds a page of 2M, found at level 1 by a walk of Sv39
C39_MegapagesOfBothModes ==
    /\ AfterMiss
    /\ csr.satp.MODE = 1
    /\ \E i \in 1..Len(res.walks) : \E e \in res.walks[i].added :
           LeafLevel(res.walks[i]) = 1 /\ PageOf(e, 22)
    /\ \E e \in tlb[RISCV_TLB_HS] : PageOf(e, 21)

----------------------------------------------------------------------------
(* C40: the loop of riscvVMMiss over the segments of a footprint           *)

\* the segments that tlbMiss mapped, in order: the address each started at
\* and the range reported in the tlbMapInfo
Segments ==
    IF AfterMiss /\ res.inp.dt = "DT_VIRT" THEN res.maps ELSE <<>>

SegmentStart(i) == Segments[i].VA

SegmentLow(i) == Segments[i].alias.lowVA

SegmentHigh(i) == Segments[i].alias.highVA

\* the range mapped for each segment holds the address the segment
\* started at
SegmentsHoldStart ==
    \A i \in 1..Len(Segments) :
        InRange64(SegmentStart(i), SegmentLow(i), SegmentHigh(i))

\* C40 as stated: the range mapped for each segment holds the address the
\* segment started at, and each segment starts at a higher address than
\* the one before it.
C40_SegmentStartsIncrease ==
    /\ SegmentsHoldStart
    /\ \A i \in 2..Len(Segments) : Lt64(SegmentStart(i - 1), SegmentStart(i))

\* C40 amended: the range mapped for each segment holds the address the
\* segment started at; the first segment starts at the address of the
\* access and each other one at the byte after the range of the segment
\* before it, modulo 2^64, which is a byte of the footprint further from
\* the address of the access; there are no more segments than bytes, and
\* a call that returns false has mapped the last byte of the footprint in
\* its last segment.
C40_SegmentsAdvanceInFootprint ==
    /\ SegmentsHoldStart
    /\ Len(Segments) >= 1 => SegmentStart(1) = res.address
    /\ \A i \in 2..Len(Segments) :
           /\ SegmentStart(i) = Add64(SegmentHigh(i - 1), U64(1))
           /\ Lt64(Sub64(SegmentStart(i - 1), res.address),
                   Sub64(SegmentStart(i), res.address))
           /\ Lt64(Sub64(SegmentStart(i), res.address), U64(res.bytes))
    /\ Len(Segments) <= res.bytes
    /\ (AfterMiss /\ res.inp.dt = "DT_VIRT" /\ ~res.ret) =>
           /\ Len(Segments) >= 1
           /\ InRange64(ResLastVA, SegmentLow(Len(Segments)),
                        SegmentHigh(Len(Segments)))

\* an access of four bytes to the last two bytes and the first two bytes
\* of the address space was mapped in two segments, the second at 0
C40_FootprintWrapsToZero ==
    /\ AfterMiss /\ ~res.ret
    /\ res.address = VA_TOP
    /\ Len(Segments) = 2
    /\ SegmentStart(2) = Zero64

====
